---- MODULE Spec2Model ----
(***************************************************************************)
(* Mini-Task-API: the request pipeline around task mutation.               *)
(*                                                                         *)
(* The state is the database (tasks, idempotency records, the fixed user   *)
(* table), the wall clock, and the requests in flight.  A request is       *)
(* handled by Node in synchronous segments separated by awaited database   *)
(* calls; each awaited call is one atomic step here, together with the     *)
(* synchronous code that runs up to the next await.  Requests interleave   *)
(* only at those awaits.                                                   *)
(*                                                                         *)
(* Time is counted in hours.  Strings that the code concatenates (the      *)
(* scoped idempotency key) are sequences of characters/atoms, so that      *)
(* concatenation is really concatenation.  JSON objects are records that   *)
(* hold only the keys that are present; JS null in assignedTo is 0 (ids    *)
(* are positive) and null in description is "null".                        *)
(***************************************************************************)
EXTENDS Integers, Sequences, FiniteSets

VARIABLES
  now,      \* wall clock, in hours
  tasks,    \* table Task: a set of rows with unique id
  nextId,   \* AUTO_INCREMENT counter of table Task
  idem,     \* table IdempotencyKey: a set of rows with unique key
  req,      \* request slots: each request of the run, with its position
  users,    \* table User: the ids of the rows that exist
  hits,     \* the rate limiter's store: requests counted per caller key
  passed,   \* per caller key, the requests of the current window that the
            \* limiter passed on (history, not read by the program)
  lastRl,   \* the limiter's latest decision (history)
  refreshTokens, \* table RefreshToken: a set of rows with unique tokenId
  resetIn   \* the rate limiter's store: per caller key, the milliseconds
            \* from the clock to the key's resetTime (negative: passed)

vars == <<now, tasks, nextId, idem, req, users, hits, passed, lastRl,
          refreshTokens, resetIn>>

---------------------------------------------------------------------------
(* Bounds of the model *)

\* number of requests in one run
MaxReq == 3

\* number of 12-hour clock steps in one run
MaxTicks == 3

\* number of caller keys the rate limiter counts at the same time
MaxClients == 1

\* number of requests a caller sends beyond its quota in one window
MaxOver == 2

Slots == 1..MaxReq

---------------------------------------------------------------------------
(* Program constants *)

\* new Date(Date.now() + 24 * 60 * 60 * 1000): the record's lifetime, hours
TTL == 24

\* a subscriptionExpiry that lies after every instant of a run
FarFuture == 100000

---------------------------------------------------------------------------
(* Table User.  No route under src/ changes role, isPremium or            *)
(* subscriptionExpiry (register creates role 'user'; the tests promote     *)
(* with a direct database update), so the table is fixed for a run:        *)
(* a plain user, a premium user with an active subscription, an admin,     *)
(* and a premium user whose subscription ends at hour 12 of the run.       *)

UserIds == {1, 2, 3, 4}

UserDb ==
  [u \in UserIds |->
     CASE u = 1 -> [id |-> 1, email |-> "u1", role |-> "user",
                    isPremium |-> FALSE, subscriptionExpiry |-> 0]
       [] u = 2 -> [id |-> 2, email |-> "u2", role |-> "premium",
                    isPremium |-> TRUE, subscriptionExpiry |-> FarFuture]
       [] u = 3 -> [id |-> 3, email |-> "u3", role |-> "admin",
                    isPremium |-> FALSE, subscriptionExpiry |-> 0]
       [] u = 4 -> [id |-> 4, email |-> "u4", role |-> "premium",
                    isPremium |-> TRUE, subscriptionExpiry |-> 12]]

\* jwt.sign payload of the access token: what jwt.verify hands to req.user
generateAccessToken(user) ==
  [userId |-> user.id, email |-> user.email, role |-> user.role,
   isPremium |-> user.isPremium]

\* req.user when no identity was resolved
NoUser == [anonymous |-> TRUE]

\* the access token a caller holds: issued by login or refresh for the row
TokenOf(u) == generateAccessToken(UserDb[u])

---------------------------------------------------------------------------
(* Strings and JSON *)

\* decimal digits of a positive integer, as a sequence of characters
RECURSIVE Decimal(_)
Decimal(n) ==
  LET d == <<"0", "1", "2", "3", "4", "5", "6", "7", "8", "9">>
  IN  IF n < 10 THEN <<d[n + 1]>> ELSE Decimal(n \div 10) \o <<d[(n % 10) + 1]>>

\* a request body is the parsed JSON object: its (key, value) pairs in order
Has(body, k) == \E i \in 1..Len(body) : body[i][1] = k
Get(body, k) == body[CHOOSE i \in 1..Len(body) : body[i][1] = k][2]

\* JS truthiness of a string-valued body field: present and not ""
Truthy(body, k) == Has(body, k) /\ Get(body, k) # ""

\* JSON.stringify keeps the pairs and their order; sha256 is taken to be
\* collision-free, so the digest is a tag on the serialised text
requestHashOf(body) == <<"sha256", body>>

Priorities == {"low", "medium", "high"}
Statuses == {"pending", "in_progress", "completed"}

\* { error: { code, message } } as written inline by the routes
ErrorBody(code) == [error |-> [code |-> code, fields |-> {"code", "message"}]]

\* errorHandler: the five-field body, code from err.code or INTERNAL_ERROR
errorHandler(code) ==
  [error |-> [code |-> code,
              fields |-> {"code", "message", "details", "timestamp", "path"}]]

NoBody == [none |-> TRUE]

\* pickBasic: undefined members vanish when the object is serialised
pickBasic(t) == [k \in ({"id", "title", "status"} \cap DOMAIN t) |-> t[k]]

---------------------------------------------------------------------------
(* Routes *)

\* POST, PUT, PATCH (status), DELETE and GET (by id) of /api/v1/tasks (1)
\* and /api/v2/tasks (2)
PostRoutes == {"POST1", "POST2"}
PutRoutes == {"PUT1", "PUT2"}
PatchRoutes == {"PATCH1", "PATCH2"}
DeleteRoutes == {"DELETE1", "DELETE2"}
WriteRoutes == PutRoutes \cup PatchRoutes \cup DeleteRoutes
GetRoutes == {"GET1", "GET2"}

Method(route) ==
  CASE route \in PostRoutes -> "POST"
    [] route \in PutRoutes -> "PUT"
    [] route \in PatchRoutes -> "PATCH"
    [] route \in DeleteRoutes -> "DELETE"
    [] OTHER -> "GET"

\* req.baseUrl followed by req.path
pathScopeOf(route) ==
  IF route = "POST1" THEN <<"/api/v1/tasks", "/">> ELSE <<"/api/v2/tasks", "/">>

\* a scoped key that leaves the caller out
scopedKeyNoUser(method, pathScope, userScope, rawKey) ==
  <<method>> \o <<":">> \o pathScope \o <<":">> \o rawKey

\* `${req.method}:${pathScope}:${userScope}:${rawKey}`
scopedKeyOf(method, pathScope, userScope, rawKey) ==
  <<method>> \o <<":">> \o pathScope \o <<":">> \o userScope \o <<":">> \o rawKey

\* req.user?.userId ?? 'anon', as it is interpolated into the key
userScopeOf(user) ==
  IF "userId" \in DOMAIN user THEN Decimal(user.userId) ELSE <<"a", "n", "o", "n">>

isV1Basic(pathScope) == Head(pathScope) = "/api/v1/tasks"

---------------------------------------------------------------------------
(* Database helpers *)

TaskIds == {t.id : t \in tasks}
TaskById(id) == CHOOSE t \in tasks : t.id = id

\* what findUnique answers when there is no row
NoRow == [none |-> TRUE]

HasRecord(key) == \E r \in idem : r.key = key
RecordOf(key) == CHOOSE r \in idem : r.key = key

\* prisma.idempotencyKey.findUnique({ where: { key } })
findUniqueRecord(key) == IF HasRecord(key) THEN RecordOf(key) ELSE NoRow

\* prisma.idempotencyKey.upsert: update response, expiresAt and requestHash
\* of the row with this key, or insert the row
upsertRecord(key, userId, endpoint, hash, response, expires) ==
  IF HasRecord(key)
    THEN (idem \ {RecordOf(key)}) \cup
           {[RecordOf(key) EXCEPT !.response = response,
                                  !.expiresAt = expires,
                                  !.requestHash = hash]}
    ELSE idem \cup {[key |-> key, userId |-> userId, endpoint |-> endpoint,
                     requestHash |-> hash, response |-> response,
                     expiresAt |-> expires]}

\* a record that never expires
UnexpiredAlways(record) == TRUE

\* existing.expiresAt > new Date()
Unexpired(record) == record.expiresAt > now

---------------------------------------------------------------------------
(* Policy *)

\* a gate that trusts the isPremium flag the token was issued with
allowedHighByFlag(u) ==
  \/ "role" \in DOMAIN u /\ u.role = "admin"
  \/ "isPremium" \in DOMAIN u /\ u.isPremium

\* isPremiumValid || role === 'admin' of the v2 create and update handlers:
\* u.subscriptionExpiry is read from the decoded token
allowedHigh(u) ==
  LET isPremiumValid ==
        /\ "isPremium" \in DOMAIN u /\ u.isPremium
        /\ "subscriptionExpiry" \in DOMAIN u
        /\ u.subscriptionExpiry # 0
        /\ u.subscriptionExpiry > now
  IN  ("role" \in DOMAIN u /\ u.role = "admin") \/ isPremiumValid

---------------------------------------------------------------------------
(* The role-aware rate limiter on /api                                     *)

\* what a request carries in its Authorization header: nothing, something
\* that is not a bearer credential, a bearer token that jwt.verify rejects
\* (forged or expired), or the access token of the user with that id
NoHeader == 0
NotBearer == -1
BadToken == -2

Callers == {NoHeader, NotBearer, BadToken} \cup UserIds

\* a middleware that lets every request through
authenticateAnyone(u) == "ok"

\* middleware/authenticate: the error code of its 401, or "ok"
authenticate(u) ==
  IF u \in {NoHeader, NotBearer} THEN "NO_TOKEN"
  ELSE IF u = BadToken THEN "INVALID_TOKEN"
  ELSE "ok"

\* the caller of a request as optionalAuth resolves it
CallerToken(u) == IF u \in UserIds THEN TokenOf(u) ELSE NoUser

\* const ROLE_LIMITS = { anonymous: 20, user: 100, premium: 500 }
ROLE_LIMITS == [anonymous |-> 20, user |-> 100, premium |-> 500]

\* (req?.user?.role) || 'anonymous'
getRole(user) == IF "role" \in DOMAIN user THEN user.role ELSE "anonymous"

\* a limiter that gives every caller the premium quota
maxOfPremium(user) == ROLE_LIMITS.premium

\* max: ROLE_LIMITS[getRole(req)] ?? ROLE_LIMITS.anonymous
maxOf(user) ==
  IF getRole(user) \in DOMAIN ROLE_LIMITS THEN ROLE_LIMITS[getRole(user)]
  ELSE ROLE_LIMITS.anonymous

\* keyGenerator: user:<id> for a resolved identity, else anon:<address>; the
\* anonymous callers of a run share one client address
keyGenerator(user) ==
  IF "userId" \in DOMAIN user THEN <<"user", user.userId>> ELSE <<"anon", "ip">>

LimiterKeys == {keyGenerator(CallerToken(u)) : u \in Callers}

NoDecision == [none |-> TRUE]

---------------------------------------------------------------------------
(* Request slots *)

IdleReq ==
  [pc |-> "idle", route |-> "none", cred |-> NoHeader, user |-> NoUser,
   rawKey |-> <<>>, body |-> <<>>, id |-> 0, seen |-> {},
   scopedKey |-> <<>>, requestHash |-> <<>>,
   existing |-> NoRow, status |-> 0, resp |-> NoBody,
   \* history, not read by the program:
   outcome |-> "none", created |-> 0, after |-> {}, tBegin |-> 0, tDone |-> 0]

Done(s) == req[s].pc = "done"
DoneSlots == {r \in Slots : req[r].pc = "done"}

\* slots are taken in order
MayStart(s) ==
  /\ req[s].pc = "idle"
  /\ \A r \in Slots : r < s => req[r].pc # "idle"

\* the request of slot s reaches its route: it arrives now, or the rate
\* limiter has passed it on
Arrives(s, u) ==
  \/ MayStart(s)
  \/ req[s].pc = "admitted" /\ req[s].cred = u

\* the response is sent
Respond(r, status, body, outcome) ==
  [r EXCEPT !.pc = "done", !.status = status, !.resp = body,
            !.outcome = outcome, !.tDone = now]

Init ==
  /\ now = 0
  /\ tasks = {}
  /\ nextId = 1
  /\ idem = {}
  /\ req = [s \in Slots |-> IdleReq]
  /\ users = UserIds
  /\ hits = [k \in LimiterKeys |-> 0]
  /\ passed = [k \in LimiterKeys |-> 0]
  /\ lastRl = NoDecision
  /\ refreshTokens = {}
  /\ resetIn = [k \in LimiterKeys |-> 0]

---------------------------------------------------------------------------
(* POST /api/v1/tasks and POST /api/v2/tasks:                              *)
(* authenticate, idempotency, handler                                      *)

\* a lookup that never replays
idempotencyLookupNoReplay(existing, hash) ==
  IF existing # NoRow /\ existing.requestHash # hash THEN "CONFLICT" ELSE "MISS"

\* a lookup that does not compare the request hash
idempotencyLookupNoConflict(existing, hash) ==
  IF existing # NoRow /\ existing.expiresAt > now THEN "REPLAY" ELSE "MISS"

\* the three-way decision of the idempotency middleware on `existing`
idempotencyLookup(existing, hash) ==
  IF existing # NoRow
    THEN IF existing.requestHash # hash THEN "CONFLICT"
         ELSE IF Unexpired(existing) THEN "REPLAY"
         ELSE "MISS"
    ELSE "MISS"

\* (priority || 'medium') === 'high'
wantsHigh(body) ==
  (IF Truthy(body, "priority") THEN Get(body, "priority") ELSE "medium") = "high"

\* what the create handler answers before it touches the database
createVerdict(route, u, body) ==
  IF ~Truthy(body, "title") THEN "MISSING_FIELD"
  ELSE IF route = "POST2" /\ wantsHigh(body) /\ ~allowedHigh(u)
    THEN "FORBIDDEN_HIGH_PRIORITY"
  ELSE "ok"

StatusOfCode(code) ==
  CASE code = "MISSING_FIELD" -> 400
    [] code = "MISSING_IDEMPOTENCY_KEY" -> 400
    [] code = "INVALID_PRIORITY" -> 400
    [] code = "INVALID_STATUS" -> 400
    [] code = "FORBIDDEN_HIGH_PRIORITY" -> 403
    [] code = "FORBIDDEN_HIGH_PRIORITY_UPDATE" -> 403
    [] code = "FORBIDDEN" -> 403
    [] code = "NO_TOKEN" -> 401
    [] code = "INVALID_TOKEN" -> 401
    [] code = "NOT_FOUND" -> 404
    [] code = "IDEMPOTENCY_KEY_REUSED" -> 409
    [] code = "RATE_LIMIT_EXCEEDED" -> 429
    [] OTHER -> 500

\* the row prisma.task.create inserts
newTask(id, body, ownerId) ==
  [id |-> id,
   title |-> Get(body, "title"),
   description |-> IF Has(body, "description") THEN Get(body, "description")
                   ELSE "null",
   status |-> "pending",
   priority |-> IF Has(body, "priority") /\ Get(body, "priority") \in Priorities
                THEN Get(body, "priority") ELSE "medium",
   isPublic |-> IF Has(body, "isPublic") THEN Get(body, "isPublic") ELSE FALSE,
   ownerId |-> ownerId,
   assignedTo |-> 0,
   createdAt |-> now,
   updatedAt |-> now]

\* a request that is let through without an Idempotency-Key
missingKeyNever(rawKey) == FALSE

\* if (!rawKey): the Idempotency-Key header is absent or empty
missingKey(rawKey) == rawKey = <<>>

\* a cache whose replay renews the lifetime of the record
cacheAfterLookupSliding(existing, hash) ==
  IF idempotencyLookup(existing, hash) = "REPLAY"
    THEN (idem \ {existing}) \cup {[existing EXCEPT !.expiresAt = now + TTL]}
    ELSE idem

\* table IdempotencyKey after the middleware has looked at `existing`: the
\* 409 and the replay return through the res.json that is not wrapped yet,
\* and a miss writes nothing before the handler has answered
cacheAfterLookup(existing, hash) == idem

\* a create request arrives: authenticate, then idempotency up to and
\* including the answer of findUnique, then the handler up to its first await
PostBegin(s, u, route, rawKey, body) ==
  /\ Arrives(s, u)
  /\ route \in PostRoutes
  /\ LET user == CallerToken(u)
         auth == authenticate(u)
         pathScope == pathScopeOf(route)
         key == scopedKeyOf(Method(route), pathScope, userScopeOf(user), rawKey)
         hash == requestHashOf(body)
         existing == findUniqueRecord(key)
         r0 == [IdleReq EXCEPT !.route = route, !.cred = u, !.user = user,
                               !.rawKey = rawKey,
                               !.body = body, !.after = DoneSlots,
                               !.tBegin = now]
         r1 == [r0 EXCEPT !.scopedKey = key, !.requestHash = hash,
                          !.existing = existing]
         look == idempotencyLookup(existing, hash)
         verdict == createVerdict(route, user, body)
     IN  /\ idem' = IF auth = "ok" /\ ~missingKey(rawKey)
                      THEN cacheAfterLookup(existing, hash) ELSE idem
         /\ req' = [req EXCEPT ![s] =
           IF auth # "ok"
             THEN Respond(r0, StatusOfCode(auth), ErrorBody(auth),
                          "unauthenticated")
           ELSE IF missingKey(rawKey)
             THEN Respond(r0, 400, ErrorBody("MISSING_IDEMPOTENCY_KEY"),
                          "missing_key")
           ELSE IF look = "CONFLICT"
             THEN Respond(r1, 409, ErrorBody("IDEMPOTENCY_KEY_REUSED"),
                          "conflict")
           ELSE IF look = "REPLAY"
             THEN Respond(r1, 200,
                          IF isV1Basic(pathScope)
                            THEN pickBasic(existing.response)
                            ELSE existing.response,
                          "replay")
           ELSE IF verdict # "ok"
             THEN [r1 EXCEPT !.pc = "upsert", !.status = StatusOfCode(verdict),
                             !.resp = ErrorBody(verdict), !.outcome = "error"]
           ELSE [r1 EXCEPT !.pc = "create"]]
  /\ UNCHANGED <<now, tasks, nextId, users, hits, passed, lastRl, refreshTokens, resetIn>>

\* a foreign key that accepts every owner
ownerExistsAlways(ownerId) == TRUE

\* Task_ownerId_fkey: the owner of an inserted task is a row of table User
ownerExists(ownerId) == ownerId \in users

\* prisma.task.create answers; the handler calls res.status(201).json(...)
PostCreate(s) ==
  /\ req[s].pc = "create"
  /\ LET t == newTask(nextId, req[s].body, req[s].user.userId)
     IN  IF ownerExists(t.ownerId)
           THEN /\ tasks' = tasks \cup {t}
                /\ nextId' = nextId + 1
                /\ req' = [req EXCEPT ![s] =
                     [@ EXCEPT !.pc = "upsert", !.status = 201,
                               !.resp = IF req[s].route = "POST1"
                                          THEN pickBasic(t) ELSE t,
                               !.outcome = "exec", !.created = t.id]]
           \* Task_ownerId_fkey: the insert throws, next(err), errorHandler
           ELSE /\ tasks' = tasks
                /\ nextId' = nextId
                /\ req' = [req EXCEPT ![s] =
                     [@ EXCEPT !.pc = "upsert", !.status = 500,
                               !.resp = errorHandler("P2003"),
                               !.outcome = "error"]]
  /\ UNCHANGED <<now, idem, users, hits, passed, lastRl, refreshTokens, resetIn>>

\* the wrapped res.json: the upsert answers, then the response is sent
PostUpsert(s) ==
  /\ req[s].pc = "upsert"
  /\ LET r == req[s]
         pathScope == pathScopeOf(r.route)
         out == IF isV1Basic(pathScope) THEN pickBasic(r.resp) ELSE r.resp
         \* IdempotencyKey_userId_fkey: the insert throws, the wrapper
         \* catches and logs
         fk == HasRecord(r.scopedKey) \/ r.user.userId \in users
     IN  /\ idem' = IF fk
                      THEN upsertRecord(r.scopedKey, r.user.userId, pathScope,
                                        r.requestHash, out, now + TTL)
                      ELSE idem
         /\ req' = [req EXCEPT ![s] = Respond(r, r.status, out, r.outcome)]
  /\ UNCHANGED <<now, tasks, nextId, users, hits, passed, lastRl, refreshTokens, resetIn>>

\* twelve hours pass.  A request lasts far less than one clock step, so the
\* clock steps between requests.
Tick ==
  /\ now < MaxTicks * 12
  /\ \A s \in Slots : req[s].pc \in {"idle", "done"}
  /\ now' = now + 12
  /\ UNCHANGED <<tasks, nextId, idem, req, users, hits, passed, lastRl, refreshTokens, resetIn>>

---------------------------------------------------------------------------
(* The create endpoints under concurrent clients *)

BodyA == << <<"title", "A">> >>
BodyB == << <<"title", "B">> >>
BodyAHigh == << <<"title", "A">>, <<"priority", "high">> >>
KeyK == <<"k">>

\* caller, route, Idempotency-Key, body
IdemInputs ==
  { <<1, "POST2", KeyK, BodyA>>,
    <<1, "POST2", KeyK, BodyB>>,
    <<1, "POST2", KeyK, BodyAHigh>>,
    <<2, "POST2", KeyK, BodyA>>,
    <<1, "POST1", KeyK, BodyA>>,
    <<1, "POST1", KeyK, BodyB>> }

Begin(s) ==
  \E i \in IdemInputs : PostBegin(s, i[1], i[2], i[3], i[4])

Next ==
  \/ \E s \in Slots : Begin(s)
  \/ \E s \in Slots : PostCreate(s)
  \/ \E s \in Slots : PostUpsert(s)
  \/ Tick

Spec == Init /\ [][Next]_vars

---------------------------------------------------------------------------
(* PUT /:id, PATCH /:id/status, DELETE /:id and GET /:id                   *)

isAuthed(user) == "userId" \in DOMAIN user
isAdmin(user) == "role" \in DOMAIN user /\ user.role = "admin"

\* a predicate that lets every caller write an existing task
canAccessTaskAnyone(user, id) == id \in TaskIds

\* canAccessTask (v1 and v2 alike): the task exists and the caller is its
\* owner or an admin
canAccessTask(user, id) ==
  /\ id \in TaskIds
  /\ (TaskById(id).ownerId = user.userId \/ user.role = "admin")

\* middleware/abac: lets the request through when the predicate holds and
\* answers 403 otherwise
abac(allowed) == IF allowed THEN "ok" ELSE "FORBIDDEN"

\* canSee of GET /api/v2/tasks/:id
canSeeV2(user, task) ==
  isAdmin(user) \/ task.isPublic \/ (isAuthed(user) /\ task.ownerId = user.userId)

\* canSee of GET /api/v1/tasks/:id (the caller is authenticated)
canSeeV1(user, task) ==
  task.isPublic \/ task.ownerId = user.userId \/ user.role = "admin"

\* what the PUT handler answers before it touches the database
putVerdict(route, u, body) ==
  IF ~Truthy(body, "title") THEN "MISSING_FIELD"
  ELSE IF Truthy(body, "priority") /\ Get(body, "priority") \notin Priorities
    THEN "INVALID_PRIORITY"
  ELSE IF Truthy(body, "status") /\ Get(body, "status") \notin Statuses
    THEN "INVALID_STATUS"
  ELSE IF route = "PUT2" /\ Has(body, "priority")
          /\ Get(body, "priority") = "high" /\ ~allowedHigh(u)
    THEN "FORBIDDEN_HIGH_PRIORITY_UPDATE"
  ELSE "ok"

\* what the PATCH status handler answers before it touches the database
patchVerdict(body) ==
  IF Has(body, "status") /\ Get(body, "status") \in Statuses THEN "ok"
  ELSE "INVALID_STATUS"

writeVerdict(route, u, body) ==
  CASE route \in PutRoutes -> putVerdict(route, u, body)
    [] route \in PatchRoutes -> patchVerdict(body)
    [] OTHER -> "ok"

\* an update that hands the task over to the user it is assigned to
putDataReassigns(route, t, body) ==
  [t EXCEPT
     !.title = Get(body, "title"),
     !.assignedTo = IF route = "PUT2" /\ Has(body, "assignedTo")
                    THEN Get(body, "assignedTo") ELSE @,
     !.ownerId = IF route = "PUT2" /\ Has(body, "assignedTo")
                 THEN Get(body, "assignedTo") ELSE @,
     !.updatedAt = now]

\* the row after prisma.task.update of PUT: an undefined member is left alone
putData(route, t, body) ==
  [t EXCEPT
     !.title = Get(body, "title"),
     !.description = IF Has(body, "description") THEN Get(body, "description")
                     ELSE @,
     !.priority = IF Has(body, "priority") THEN Get(body, "priority") ELSE @,
     !.status = IF Has(body, "status") THEN Get(body, "status") ELSE @,
     !.isPublic = IF Has(body, "isPublic") THEN Get(body, "isPublic") ELSE @,
     !.assignedTo = IF route = "PUT2" /\ Has(body, "assignedTo")
                    THEN Get(body, "assignedTo") ELSE @,
     !.updatedAt = now]

\* an update that only moves a status forward
patchDataForwardOnly(t, body) ==
  LET rank == [pending |-> 1, in_progress |-> 2, completed |-> 3]
  IN  IF rank[Get(body, "status")] >= rank[t.status]
        THEN [t EXCEPT !.status = Get(body, "status"), !.updatedAt = now]
        ELSE t

\* the row after prisma.task.update of PATCH status
patchData(t, body) == [t EXCEPT !.status = Get(body, "status"), !.updatedAt = now]

\* a write request arrives: parseIdParam, authenticate, abac with the answer
\* of canAccessTask's findUnique, then the handler up to its first await
WriteBegin(s, u, route, id, body) ==
  /\ MayStart(s)
  /\ route \in WriteRoutes
  /\ LET user == CallerToken(u)
         auth == authenticate(u)
         r0 == [IdleReq EXCEPT !.route = route, !.cred = u, !.user = user,
                               !.id = id,
                               !.body = body, !.after = DoneSlots,
                               !.tBegin = now]
         gate == abac(canAccessTask(user, id))
         verdict == writeVerdict(route, user, body)
     IN  req' = [req EXCEPT ![s] =
           IF auth # "ok"
             THEN Respond(r0, StatusOfCode(auth), ErrorBody(auth),
                          "unauthenticated")
           ELSE IF gate # "ok"
             THEN Respond(r0, StatusOfCode(gate), ErrorBody(gate), "forbidden")
           ELSE IF verdict # "ok"
             THEN Respond(r0, StatusOfCode(verdict), ErrorBody(verdict), "error")
           ELSE [r0 EXCEPT !.pc = "persist"]]
  /\ UNCHANGED <<now, tasks, nextId, idem, users, hits, passed, lastRl, refreshTokens, resetIn>>

\* prisma.task.update / prisma.task.delete answers: the row is written and
\* the result sent, or the row is gone, the call throws and errorHandler
\* answers 500 with the error's code
WritePersist(s) ==
  /\ req[s].pc = "persist"
  /\ LET r == req[s]
         v1 == r.route \in {"PUT1", "PATCH1"}
     IN  IF r.id \notin TaskIds
           THEN /\ tasks' = tasks
                /\ req' = [req EXCEPT ![s] =
                     Respond(r, 500, errorHandler("P2025"), "error")]
           \* Task_assignedTo_fkey: the update throws
           ELSE IF /\ r.route = "PUT2" /\ Has(r.body, "assignedTo")
                   /\ Get(r.body, "assignedTo") \notin users
           THEN /\ tasks' = tasks
                /\ req' = [req EXCEPT ![s] =
                     Respond(r, 500, errorHandler("P2003"), "error")]
           ELSE LET t == TaskById(r.id)
                    t2 == IF r.route \in PutRoutes
                            THEN putData(r.route, t, r.body)
                            ELSE patchData(t, r.body)
                IN  IF r.route \in DeleteRoutes
                      THEN /\ tasks' = tasks \ {t}
                           /\ req' = [req EXCEPT ![s] =
                                Respond(r, 200, [ok |-> TRUE], "exec")]
                      ELSE /\ tasks' = (tasks \ {t}) \cup {t2}
                           /\ req' = [req EXCEPT ![s] =
                                Respond(r, 200,
                                        IF v1 THEN pickBasic(t2) ELSE t2,
                                        "exec")]
  /\ UNCHANGED <<now, nextId, idem, users, hits, passed, lastRl, refreshTokens, resetIn>>

\* GET /api/v2/tasks/:id (optional authentication) and GET /api/v1/tasks/:id
\* (authenticate): parseIdParam, findUnique, the visibility check, the answer
\* { error: { code: 'NOT_FOUND', message } } of the GET /:id handlers
notFoundBody(message) ==
  [error |-> [code |-> "NOT_FOUND", message |-> message,
              fields |-> {"code", "message"}]]

\* a handler that tells the caller that the task exists
taskInvisibleForbidden == [status |-> 403, body |-> ErrorBody("FORBIDDEN")]

\* if (!task): no row has the id
taskMissing == [status |-> 404, body |-> notFoundBody("Task not found")]

\* if (!canSee): the row exists and the caller may not see it
taskInvisible == [status |-> 404, body |-> notFoundBody("Task not found")]

GetTask(s, u, route, id) ==
  /\ MayStart(s)
  /\ route \in GetRoutes
  /\ LET user == CallerToken(u)
         r0 == [IdleReq EXCEPT !.route = route, !.cred = u, !.user = user,
                               !.id = id,
                               !.after = DoneSlots, !.tBegin = now]
         canSee == IF route = "GET2" THEN canSeeV2(user, TaskById(id))
                   ELSE canSeeV1(user, TaskById(id))
     IN  req' = [req EXCEPT ![s] =
           IF route = "GET1" /\ authenticate(u) # "ok"
             THEN Respond(r0, StatusOfCode(authenticate(u)),
                          ErrorBody(authenticate(u)), "unauthenticated")
           ELSE IF id \notin TaskIds
             THEN Respond(r0, taskMissing.status, taskMissing.body, "not_found")
           ELSE IF ~canSee
             THEN Respond(r0, taskInvisible.status, taskInvisible.body,
                          "not_visible")
           ELSE Respond(r0, 200,
                        IF route = "GET1" THEN pickBasic(TaskById(id))
                        ELSE TaskById(id),
                        "read")]
  /\ UNCHANGED <<now, tasks, nextId, idem, users, hits, passed, lastRl, refreshTokens, resetIn>>

---------------------------------------------------------------------------
(* The task endpoints under concurrent clients.  The clock stands still:   *)
(* no step of these routes depends on how much time has passed.            *)

BodyAPublic == << <<"title", "A">>, <<"isPublic", TRUE>> >>
BodyBAssign == << <<"title", "B">>, <<"assignedTo", 2>> >>
BodyBHigh == << <<"title", "B">>, <<"priority", "high">> >>
BodyNoTitle == << <<"priority", "low">> >>
BodyCompleted == << <<"status", "completed">> >>
BodyInProgress == << <<"status", "in_progress">> >>
BodyBadStatus == << <<"status", "archived">> >>

\* caller, route, Idempotency-Key, body
TaskCreates ==
  { <<1, "POST2", KeyK, BodyA>>,
    <<1, "POST2", KeyK, BodyAPublic>>,
    <<1, "POST2", KeyK, BodyAHigh>>,
    <<2, "POST2", KeyK, BodyAHigh>>,
    <<3, "POST2", KeyK, BodyAHigh>> }

\* caller, route, task id, body
TaskWrites ==
  { <<1, "PUT2", 1, BodyBAssign>>,
    <<1, "PUT2", 1, BodyBHigh>>,
    <<2, "PUT2", 1, BodyB>>,
    <<2, "PUT2", 1, BodyBHigh>>,
    <<3, "PUT2", 1, BodyBHigh>>,
    <<1, "PUT2", 1, BodyNoTitle>>,
    <<1, "PUT1", 1, BodyBHigh>>,
    <<2, "PUT1", 1, BodyB>>,
    <<1, "PATCH2", 1, BodyCompleted>>,
    <<2, "PATCH2", 1, BodyInProgress>>,
    <<3, "PATCH2", 1, BodyInProgress>>,
    <<1, "PATCH2", 1, BodyBadStatus>>,
    <<1, "PATCH1", 1, BodyCompleted>>,
    <<2, "PATCH1", 1, BodyCompleted>>,
    <<1, "DELETE2", 1, <<>>>>,
    <<2, "DELETE2", 1, <<>>>>,
    <<3, "DELETE2", 1, <<>>>>,
    <<1, "DELETE1", 1, <<>>>>,
    <<2, "DELETE1", 1, <<>>>> }

\* caller (0: anonymous), route, task id
TaskReads ==
  { <<0, "GET2", 1>>, <<1, "GET2", 1>>, <<2, "GET2", 1>>, <<3, "GET2", 1>>,
    <<1, "GET1", 1>>, <<2, "GET1", 1>>, <<3, "GET1", 1>> }

NextTasks ==
  \/ \E s \in Slots : \E i \in TaskCreates : PostBegin(s, i[1], i[2], i[3], i[4])
  \/ \E s \in Slots : PostCreate(s)
  \/ \E s \in Slots : PostUpsert(s)
  \/ \E s \in Slots : \E i \in TaskWrites : WriteBegin(s, i[1], i[2], i[3], i[4])
  \/ \E s \in Slots : WritePersist(s)
  \/ \E s \in Slots : \E i \in TaskReads : GetTask(s, i[1], i[2], i[3])

SpecTasks == Init /\ [][NextTasks]_vars

---------------------------------------------------------------------------
(* Properties of the create endpoints *)

Started(s) == req[s].pc # "idle"

\* same method, endpoint, caller and raw key
SameScope(s, t) ==
  /\ req[s].route = req[t].route
  /\ req[s].user = req[t].user
  /\ req[s].rawKey = req[t].rawKey

SameRequest(s, t) == SameScope(s, t) /\ req[s].body = req[t].body

\* t was sent after the answer to s had been received
Then(s, t) == Started(t) /\ s \in req[t].after

\* no other request of the same scope was in flight while s was
Isolated(s) ==
  \A x \in Slots \ {s} :
    (Started(x) /\ SameScope(x, s)) => (x \in req[s].after \/ Then(s, x))

\* s went through the wrapped res.json, which stores its response
Committed(s) == Done(s) /\ req[s].outcome \in {"exec", "error"}

\* the caller of a slot may set priority high: admin, or premium with a
\* subscription that runs past the time of the request
Eligible(s) ==
  LET row == UserDb[req[s].user.userId]
  IN  row.role = "admin" \/
      (row.isPremium /\ row.subscriptionExpiry > req[s].tBegin)

\* C1: idempotent replay.  When a create with a title was answered 201 and
\* the same caller then repeats it (same endpoint, key and body) before the
\* record expires, the second answer is 200 with the first answer's body and
\* creates nothing.  The first request is one that no request of the same
\* scope overlapped.
C1_IdempotentReplay ==
  \A s, t \in Slots :
    ( /\ Done(s) /\ Then(s, t) /\ SameRequest(s, t)
      /\ Truthy(req[s].body, "title")
      /\ req[s].status = 201
      /\ Isolated(s)
      /\ req[t].tBegin < req[s].tDone + TTL )
    => ( /\ Done(t)
         /\ req[t].status = 200
         /\ req[t].resp = req[s].resp
         /\ req[t].created = 0 )

C1_Witness ==
  \E s, t \in Slots :
    /\ Done(s) /\ Then(s, t) /\ SameRequest(s, t)
    /\ req[s].status = 201 /\ Isolated(s)
    /\ req[t].tBegin > req[s].tDone
    /\ req[t].tBegin < req[s].tDone + TTL
    /\ req[t].status = 200 /\ req[t].resp.id = req[s].created

\* C2: conflict detection.  Once a create has been committed under a scoped
\* key, a later create of the same scope with another body is answered 409
\* IDEMPOTENCY_KEY_REUSED at the lookup: the handler does not run and the
\* step changes neither the tasks nor the records.
C2_ConflictDetection ==
  [][ /\ \A s, t \in Slots :
           ( /\ Committed(s) /\ Then(s, t) /\ SameScope(s, t) /\ Isolated(s)
             /\ req[s].body # req[t].body )'
           => ( /\ Done(t)
                /\ req[t].status = 409
                /\ req[t].resp = ErrorBody("IDEMPOTENCY_KEY_REUSED")
                /\ req[t].outcome = "conflict"
                /\ req[t].created = 0 )'
      /\ \A t \in Slots :
           (req[t].pc = "idle" /\ req'[t].status = 409)
           => (tasks' = tasks /\ nextId' = nextId /\ idem' = idem)
    ]_vars

C2_Witness ==
  \E s, t \in Slots :
    /\ Committed(s) /\ Then(s, t) /\ SameScope(s, t) /\ Isolated(s)
    /\ req[s].status = 201
    /\ req[s].body # req[t].body
    /\ req[t].status = 409
    /\ Cardinality(tasks) = 1

\* C3: at most one creation per scoped key within one TTL window: of two
\* requests of one scoped key that both created a task, the later one began
\* after the earlier one's record had expired.
C3_AtMostOnce ==
  \A s, t \in Slots :
    ( /\ s # t /\ Done(s) /\ Done(t)
      /\ req[s].scopedKey = req[t].scopedKey
      /\ req[s].created # 0 /\ req[t].created # 0 )
    => ( \/ req[t].tBegin >= req[s].tDone + TTL
         \/ req[s].tBegin >= req[t].tDone + TTL )

ExpiredSame(r) ==
  /\ r.existing # NoRow
  /\ r.existing.requestHash = r.requestHash
  /\ r.existing.expiresAt <= r.tBegin

\* C5: TTL expiry.  A create with a title (and a priority the caller may
\* set) whose lookup finds the record of the same body at or past its
\* expiresAt goes on to the handler, creates a task with a new id, is
\* answered 201, and its commit replaces the record: response of this
\* request, expiresAt = now + TTL.
C5_TtlExpiry ==
  [][ \A s \in Slots :
        LET r == req[s]
            q == req'[s]
        IN  /\ ( /\ r.pc = "idle" /\ q.pc # "idle" /\ ExpiredSame(q)
                 /\ Truthy(q.body, "title")
                 /\ (q.route = "POST2" /\ wantsHigh(q.body)) => Eligible(s)' )
               => q.pc = "create"
            /\ (r.pc = "create" /\ q.pc # "create" /\ ExpiredSame(r))
               => ( /\ q.pc = "upsert" /\ q.status = 201
                    /\ q.created \notin TaskIds
                    /\ q.created \in TaskIds'
                    /\ q.resp.id = q.created
                    /\ q.resp.id # r.existing.response.id )
            /\ (r.pc = "upsert" /\ q.pc # "upsert" /\ ExpiredSame(r)
                  /\ r.status = 201)
               => ( /\ q.pc = "done" /\ q.status = 201 /\ q.resp = r.resp
                    /\ \E rec \in idem' :
                         /\ rec.key = r.scopedKey
                         /\ rec.expiresAt = now + TTL
                         /\ rec.response = q.resp
                         /\ rec.requestHash = r.requestHash
                    /\ Cardinality(idem') = Cardinality(idem) )
    ]_vars

C5_Witness ==
  \E s, t \in Slots :
    /\ Done(s) /\ Then(s, t) /\ Done(t) /\ SameRequest(s, t)
    /\ req[s].status = 201
    /\ ExpiredSame(req[t])
    /\ req[t].existing.response = req[s].resp
    /\ req[t].status = 201
    /\ req[t].created # req[s].created
    /\ RecordOf(req[t].scopedKey).expiresAt = req[t].tDone + TTL
    /\ RecordOf(req[t].scopedKey).response = req[t].resp

\* C6: a record that has not expired is never overwritten or removed.
C6_RecordImmutable ==
  [][ \A r \in idem : Unexpired(r) => r \in idem' ]_vars

\* C9 (create, Spec): a create with a title that asks for priority high, by a
\* caller who is neither admin nor active premium, is answered 403
\* FORBIDDEN_HIGH_PRIORITY and creates nothing, on the first attempt and on
\* every retry of the same request under the same key.
C9_HighPriorityDenied ==
  \A s \in Slots :
    ( /\ Done(s) /\ req[s].route = "POST2"
      /\ Truthy(req[s].body, "title") /\ wantsHigh(req[s].body)
      /\ ~Eligible(s)
      /\ req[s].outcome # "conflict" )
    => ( /\ req[s].status = 403
         /\ req[s].resp = ErrorBody("FORBIDDEN_HIGH_PRIORITY")
         /\ req[s].created = 0 )

---------------------------------------------------------------------------
(* Properties of the task endpoints *)

\* the caller of a slot owns the task or is an admin, by the user table
OwnerOrAdmin(r, task) ==
  LET row == UserDb[r.user.userId]
  IN  task.ownerId = row.id \/ row.role = "admin"

\* a write whose payload passes every check other than ownership: PUT has a
\* title and enumerated status and priority, PATCH an enumerated status.  A
\* v2 PUT by a caller other than an admin that asks for priority high is the
\* high-priority gate's case and is left to C9 and C10.
ValidWrite(r) ==
  CASE r.route \in PutRoutes ->
         /\ Truthy(r.body, "title")
         /\ Has(r.body, "priority") => Get(r.body, "priority") \in Priorities
         /\ Has(r.body, "status") => Get(r.body, "status") \in Statuses
         /\ (r.route = "PUT2" /\ Has(r.body, "priority")
               /\ Get(r.body, "priority") = "high")
            => UserDb[r.user.userId].role = "admin"
    [] r.route \in PatchRoutes ->
         Has(r.body, "status") /\ Get(r.body, "status") \in Statuses
    [] OTHER -> TRUE

\* the effect of a write of slot r on the task table, from before to after
Applied(r, before, after) ==
  LET old == CHOOSE t \in before : t.id = r.id
  IN  /\ \A t \in before : t.id # r.id => t \in after
      /\ \A t \in after : t.id # r.id => t \in before
      /\ CASE r.route \in DeleteRoutes -> \A t \in after : t.id # r.id
           [] r.route \in PatchRoutes ->
                \E t \in after :
                  /\ t.id = r.id
                  /\ t.status = Get(r.body, "status")
                  /\ t.ownerId = old.ownerId /\ t.title = old.title
                  /\ t.priority = old.priority /\ t.isPublic = old.isPublic
           [] OTHER ->
                \E t \in after :
                  /\ t.id = r.id
                  /\ t.title = Get(r.body, "title")
                  /\ Has(r.body, "priority") => t.priority = Get(r.body, "priority")
                  /\ Has(r.body, "status") => t.status = Get(r.body, "status")
                  /\ t.ownerId = old.ownerId

\* C7: ABAC write.  A PUT, PATCH status or DELETE (v1 and v2) on an existing
\* task by a caller who is neither its owner nor an admin is answered 403
\* and changes no task; by the owner or an admin, with a payload that is
\* otherwise valid, it is accepted, and when the row is still there at the
\* database call it is answered 200 and applied to that task alone.
C7_AbacWrite ==
  [][ \A s \in Slots :
        LET r == req[s]
            q == req'[s]
        IN  /\ ( /\ r.pc = "idle" /\ q.pc # "idle"
                 /\ q.route \in WriteRoutes /\ q.id \in TaskIds )
               => /\ ~OwnerOrAdmin(q, TaskById(q.id))
                       => (q.pc = "done" /\ q.status = 403 /\ tasks' = tasks)
                  /\ (OwnerOrAdmin(q, TaskById(q.id)) /\ ValidWrite(q))
                       => (q.pc = "persist" /\ tasks' = tasks)
            /\ ( /\ r.pc = "persist" /\ q.pc # "persist" /\ r.id \in TaskIds )
               => /\ OwnerOrAdmin(r, TaskById(r.id))
                  /\ q.pc = "done" /\ q.status = 200
                  /\ Applied(r, tasks, tasks')
    ]_vars

C7_Witness ==
  \E s, t \in Slots :
    /\ Done(s) /\ Done(t) /\ Then(s, t)
    /\ req[s].route = "PATCH2" /\ req[s].user.userId = 2
    /\ req[s].status = 403
    /\ req[t].route = "PATCH2" /\ req[t].user.userId = 3 /\ req[t].id = req[s].id
    /\ req[t].status = 200
    /\ \E task \in tasks :
         /\ task.id = req[t].id /\ task.ownerId = 1
         /\ task.status = "in_progress"

\* C8: ABAC read.  GET /tasks/:id on an existing task returns the task
\* exactly when it is public, or the caller is its owner, or its assignee,
\* or an admin; otherwise 404.
C8_AbacRead ==
  [][ \A s \in Slots :
        LET q == req'[s]
        IN  ( /\ req[s].pc = "idle" /\ q.pc # "idle"
              /\ q.route \in GetRoutes /\ q.id \in TaskIds )
            => LET task == TaskById(q.id)
                   canRead ==
                     \/ task.isPublic
                     \/ isAuthed(q.user) /\ q.user.userId = task.ownerId
                     \/ isAuthed(q.user) /\ q.user.userId = task.assignedTo
                     \/ isAuthed(q.user) /\ UserDb[q.user.userId].role = "admin"
               IN  IF canRead
                     THEN q.status = 200 /\ q.resp \in {task, pickBasic(task)}
                     ELSE q.status = 404
    ]_vars

\* C10: a caller who is admin, or premium with a subscription that runs
\* past the request, and who holds a token issued by login or refresh, has a
\* v2 create, or a v2 PUT of a task they may write, with priority high
\* accepted (201 / 200) and the task stored with priority high.
C10_HighPriorityAllowed ==
  \A s \in Slots :
    /\ ( /\ Done(s) /\ req[s].route = "POST2"
         /\ Truthy(req[s].body, "title") /\ wantsHigh(req[s].body)
         /\ Eligible(s)
         /\ req[s].outcome \notin {"replay", "conflict"} )
       => ( /\ req[s].status = 201
            /\ req[s].resp.priority = "high" )
    /\ ( /\ Done(s) /\ req[s].route = "PUT2"
         /\ Truthy(req[s].body, "title") /\ wantsHigh(req[s].body)
         /\ Eligible(s)
         /\ req[s].outcome # "forbidden" /\ req[s].status # 500 )
       => ( /\ req[s].status = 200
            /\ req[s].resp.priority = "high" )

---------------------------------------------------------------------------
(* Validation on the create and update routes *)

BodyUrgent == << <<"title", "A">>, <<"priority", "urgent">> >>
BodyBUrgent == << <<"title", "B">>, <<"priority", "urgent">> >>
BodyBArchived == << <<"title", "B">>, <<"status", "archived">> >>

\* caller, route, Idempotency-Key (<<>>: no header), body
EdgeCreates ==
  { <<1, "POST2", <<>>, BodyA>>,
    <<1, "POST2", <<>>, BodyNoTitle>>,
    <<1, "POST1", <<>>, BodyNoTitle>>,
    <<1, "POST1", KeyK, BodyNoTitle>>,
    <<1, "POST1", KeyK, BodyA>>,
    <<1, "POST1", KeyK, BodyB>>,
    <<1, "POST2", KeyK, BodyA>>,
    <<1, "POST2", KeyK, BodyUrgent>> }

\* caller, route, task id, body
EdgeWrites ==
  { <<1, "PUT2", 1, BodyBUrgent>>,
    <<1, "PUT2", 1, BodyBArchived>>,
    <<1, "PUT1", 1, BodyBUrgent>>,
    <<1, "PATCH2", 1, BodyBadStatus>>,
    <<1, "PATCH2", 1, BodyCompleted>> }

NextEdge ==
  \/ \E s \in Slots : \E i \in EdgeCreates : PostBegin(s, i[1], i[2], i[3], i[4])
  \/ \E s \in Slots : PostCreate(s)
  \/ \E s \in Slots : PostUpsert(s)
  \/ \E s \in Slots : \E i \in EdgeWrites : WriteBegin(s, i[1], i[2], i[3], i[4])
  \/ \E s \in Slots : WritePersist(s)

SpecEdge == Init /\ [][NextEdge]_vars

---------------------------------------------------------------------------
(* GET /api/v2/tasks (optional authentication) and GET /api/v1/tasks       *)
(* (authenticate).  A query string is, like a body, its (key, value) pairs; *)
(* the values are strings, i.e. sequences of characters.                   *)

ListRoutes == {"LIST1", "LIST2"}

Digits == <<"0", "1", "2", "3", "4", "5", "6", "7", "8", "9">>

\* Number(v) of a non-empty string: its value when it is all decimal digits,
\* else NaN, written -1 (no filter value is negative)
RECURSIVE NumberOf(_)
NumberOf(str) ==
  IF str = <<>> THEN 0
  ELSE LET last == str[Len(str)]
           init == NumberOf(SubSeq(str, 1, Len(str) - 1))
       IN  IF init = -1 \/ ~(\E d \in 1..10 : Digits[d] = last) THEN -1
           ELSE 10 * init + ((CHOOSE d \in 1..10 : Digits[d] = last) - 1)

\* asBool of a query value: true, false or undefined
asBool(v) ==
  IF v = <<"t", "r", "u", "e">> THEN "true"
  ELSE IF v = <<"f", "a", "l", "s", "e">> THEN "false"
  ELSE "undefined"

\* baseFilter of the v2 list: the members that the query sets
baseFilter(query) ==
  LET keys == {k \in {"status", "priority"} : Has(query, k) /\ Get(query, k) # <<>>}
              \cup {k \in {"assignedTo"} :
                      /\ Has(query, k) /\ Get(query, k) # <<>>
                      /\ NumberOf(Get(query, k)) # -1}
              \cup {k \in {"isPublic"} :
                      Has(query, k) /\ asBool(Get(query, k)) # "undefined"}
  IN  [k \in keys |->
         CASE k = "assignedTo" -> NumberOf(Get(query, k))
           [] k = "isPublic" -> asBool(Get(query, k)) = "true"
           [] OTHER -> Get(query, k)]

\* a visibility clause that hides nothing
visibilityAll(user) == [k \in {} |-> TRUE]

\* visibility of the v2 list: nothing for an admin, OR [public, own] for an
\* authenticated caller, isPublic: true for an anonymous one
visibility(user) ==
  IF isAdmin(user) THEN [k \in {} |-> TRUE]
  ELSE IF isAuthed(user) THEN [OR |-> user.userId]
  ELSE [isPublic |-> TRUE]

\* { ...baseFilter, ...visibility }: a member of the second replaces the
\* member of the same name of the first
spread(a, b) ==
  [k \in DOMAIN a \cup DOMAIN b |-> IF k \in DOMAIN b THEN b[k] ELSE a[k]]

\* where of the v1 list
whereV1(user, query) ==
  spread(spread(IF isAdmin(user) THEN [k \in {} |-> TRUE]
                ELSE [OR |-> user.userId],
                [k \in {k \in {"status"} : Has(query, k) /\ Get(query, k) # <<>>}
                   |-> Get(query, k)]),
         [k \in {k \in {"priority"} : Has(query, k) /\ Get(query, k) # <<>>}
            |-> Get(query, k)])

\* a string column compared with a query value
Chars(str) ==
  CASE str = "pending" -> <<"p", "e", "n", "d", "i", "n", "g">>
    [] str = "completed" -> <<"c", "o", "m", "p", "l", "e", "t", "e", "d">>
    [] str = "in_progress" -> <<"i", "n", "_", "p", "r", "o", "g", "r", "e", "s", "s">>
    [] str = "high" -> <<"h", "i", "g", "h">>
    [] str = "medium" -> <<"m", "e", "d", "i", "u", "m">>
    [] str = "low" -> <<"l", "o", "w">>
    [] OTHER -> <<str>>

\* prisma's reading of a where object: every member holds of the row
matches(where, t) ==
  /\ "status" \in DOMAIN where => Chars(t.status) = where.status
  /\ "priority" \in DOMAIN where => Chars(t.priority) = where.priority
  /\ "assignedTo" \in DOMAIN where => t.assignedTo = where.assignedTo
  /\ "isPublic" \in DOMAIN where => t.isPublic = where.isPublic
  /\ "OR" \in DOMAIN where => (t.isPublic \/ t.ownerId = where.OR)

\* the list handler: authenticate on v1, the where object, findMany, the
\* answer.  A run holds fewer tasks than the default page of ten, so the page
\* is the whole result.
GetList(s, u, route, query) ==
  /\ MayStart(s)
  /\ route \in ListRoutes
  /\ LET user == CallerToken(u)
         r0 == [IdleReq EXCEPT !.route = route, !.cred = u, !.user = user,
                               !.body = query, !.after = DoneSlots,
                               !.tBegin = now]
         where == IF route = "LIST1" THEN whereV1(user, query)
                  ELSE spread(baseFilter(query), visibility(user))
         found == {t \in tasks : matches(where, t)}
     IN  req' = [req EXCEPT ![s] =
           IF route = "LIST1" /\ authenticate(u) # "ok"
             THEN Respond(r0, StatusOfCode(authenticate(u)),
                          ErrorBody(authenticate(u)), "unauthenticated")
           ELSE Respond(r0, 200,
                        [total |-> Cardinality(found),
                         items |-> IF route = "LIST1"
                                     THEN {pickBasic(t) : t \in found}
                                     ELSE found],
                        "read")]
  /\ UNCHANGED <<now, tasks, nextId, idem, users, hits, passed, lastRl, refreshTokens, resetIn>>

QueryNone == <<>>
QueryPrivate == << <<"isPublic", <<"f", "a", "l", "s", "e">> >> >>
QueryPending == << <<"status", <<"p", "e", "n", "d", "i", "n", "g">> >> >>
QueryAssigned == << <<"assignedTo", <<"2">> >>, <<"isPublic", <<"n", "o">> >> >>

\* caller, route, Idempotency-Key, body
ListCreates ==
  { <<1, "POST2", KeyK, BodyA>>,
    <<2, "POST2", KeyK, BodyAPublic>>,
    <<2, "POST2", KeyK, BodyA>>,
    <<3, "POST2", KeyK, BodyAHigh>> }

\* caller, route, query
ListReads ==
  { <<NoHeader, "LIST2", QueryNone>>,
    <<NoHeader, "LIST2", QueryPrivate>>,
    <<BadToken, "LIST2", QueryPending>>,
    <<1, "LIST2", QueryNone>>,
    <<1, "LIST2", QueryPrivate>>,
    <<2, "LIST2", QueryPending>>,
    <<2, "LIST2", QueryAssigned>>,
    <<3, "LIST2", QueryPrivate>>,
    <<1, "LIST1", QueryNone>>,
    <<2, "LIST1", QueryPending>>,
    <<3, "LIST1", QueryNone>> }

NextLists ==
  \/ \E s \in Slots : \E i \in ListCreates : PostBegin(s, i[1], i[2], i[3], i[4])
  \/ \E s \in Slots : PostCreate(s)
  \/ \E s \in Slots : PostUpsert(s)
  \/ \E s \in Slots : \E i \in ListReads : GetList(s, i[1], i[2], i[3])

SpecLists == Init /\ [][NextLists]_vars

\* the tiers: an admin sees every task, an authenticated caller the public
\* ones and their own, an anonymous caller the public ones
VisibleTo(cred, t) ==
  IF cred \in UserIds
    THEN UserDb[cred].role = "admin" \/ t.isPublic \/ t.ownerId = cred
    ELSE t.isPublic

\* C16: list visibility tiers.  Every item that GET /tasks (v1 or v2)
\* returns, whatever the query filters, is a stored task visible to the
\* caller: public for an anonymous caller, public or own for an
\* authenticated non-admin, any for an admin.
C16_ListVisibility ==
  [][ \A s \in Slots :
        LET q == req'[s]
        IN  ( /\ req[s].pc = "idle" /\ q.pc # "idle"
              /\ q.route \in ListRoutes /\ q.status = 200 )
            => \A item \in q.resp.items :
                 /\ item.id \in TaskIds
                 /\ item \in {TaskById(item.id), pickBasic(TaskById(item.id))}
                 /\ VisibleTo(q.cred, TaskById(item.id))
    ]_vars

C16_Witness ==
  \E s \in Slots :
    /\ Done(s) /\ req[s].route = "LIST2" /\ req[s].cred = 2
    /\ req[s].body = QueryPending
    /\ \E t \in tasks : t.ownerId = 1 /\ ~t.isPublic
    /\ \E t \in tasks : t.ownerId = 2
    /\ Cardinality(tasks) = 2
    /\ req[s].resp.total = 1

---------------------------------------------------------------------------
(* /api/v1/users/me: getMe, updateMe, deleteMe behind authenticate         *)

MeRoutes == {"ME_GET", "ME_PUT"}

\* GET /me and PUT /me.  getMe answers the row or null.  updateMe has no
\* try/catch: when the row is gone prisma.user.update rejects, and either
\* the framework passes the rejection to errorHandler or nothing is ever
\* sent, depending on the framework version.
UsersMe(s, u, route) ==
  /\ MayStart(s)
  /\ route \in MeRoutes
  /\ LET user == CallerToken(u)
         auth == authenticate(u)
         r0 == [IdleReq EXCEPT !.route = route, !.cred = u, !.user = user,
                               !.after = DoneSlots, !.tBegin = now]
     IN  IF auth # "ok"
           THEN req' = [req EXCEPT ![s] =
                  Respond(r0, StatusOfCode(auth), ErrorBody(auth),
                          "unauthenticated")]
         ELSE IF u \in users
           THEN req' = [req EXCEPT ![s] =
                  Respond(r0, 200, [id |-> u, role |-> UserDb[u].role], "read")]
         ELSE IF route = "ME_GET"
           THEN req' = [req EXCEPT ![s] = Respond(r0, 200, [null |-> TRUE], "read")]
         ELSE \/ req' = [req EXCEPT ![s] =
                   Respond(r0, 500, errorHandler("P2025"), "error")]
              \/ req' = [req EXCEPT ![s] = [r0 EXCEPT !.pc = "hung"]]
  /\ UNCHANGED <<now, tasks, nextId, idem, users, hits, passed, lastRl, refreshTokens, resetIn>>

\* DELETE /me arrives: authenticate, then the first four statements of the
\* transaction (clear assignedTo, delete own tasks, refresh tokens and
\* idempotency records).  Their effect stays invisible to other connections
\* until the commit; `seen` keeps the rows the two deleteMany statements hit.
DeleteMeBegin(s, u) ==
  /\ MayStart(s)
  /\ LET user == CallerToken(u)
         auth == authenticate(u)
         r0 == [IdleReq EXCEPT !.route = "ME_DELETE", !.cred = u,
                               !.user = user, !.after = DoneSlots,
                               !.tBegin = now]
     IN  req' = [req EXCEPT ![s] =
           IF auth # "ok"
             THEN Respond(r0, StatusOfCode(auth), ErrorBody(auth),
                          "unauthenticated")
           ELSE [r0 EXCEPT !.pc = "tx",
                           !.seen = [tasks |-> {t.id : t \in {x \in tasks : x.ownerId = u}},
                                     keys |-> {r.key : r \in {x \in idem : x.userId = u}},
                                     tokens |-> {r.tokenId : r \in {x \in refreshTokens : x.userId = u}}]]]
  /\ UNCHANGED <<now, tasks, nextId, idem, users, hits, passed, lastRl, refreshTokens, resetIn>>

\* tx.user.delete and the commit.  The user row must exist (else P2025) and
\* no task or idempotency record may reference it (ON DELETE RESTRICT, else
\* P2003): a row of this user inserted since the deleteMany statements makes
\* the statement throw, and the transaction rolls back as a whole.
\* Task_assignedTo_fkey is ON DELETE SET NULL.
DeleteMeCommit(s) ==
  /\ req[s].pc = "tx"
  /\ LET r == req[s]
         u == r.user.userId
         left == {t \in tasks : t.ownerId = u /\ t.id \notin r.seen.tasks}
         leftKeys == {x \in idem : x.userId = u /\ x.key \notin r.seen.keys}
         leftTokens == {x \in refreshTokens :
                          x.userId = u /\ x.tokenId \notin r.seen.tokens}
     IN  IF u \notin users
           THEN /\ UNCHANGED <<tasks, idem, users, refreshTokens>>
                /\ req' = [req EXCEPT ![s] =
                     Respond(r, 500, errorHandler("P2025"), "error")]
         ELSE IF left # {} \/ leftKeys # {} \/ leftTokens # {}
           THEN /\ UNCHANGED <<tasks, idem, users, refreshTokens>>
                /\ req' = [req EXCEPT ![s] =
                     Respond(r, 500, errorHandler("P2003"), "error")]
         ELSE /\ tasks' = {IF t.assignedTo = u THEN [t EXCEPT !.assignedTo = 0]
                           ELSE t : t \in {x \in tasks : x.ownerId # u}}
              /\ idem' = {x \in idem : x.userId # u}
              /\ refreshTokens' = {x \in refreshTokens : x.userId # u}
              /\ users' = users \ {u}
              /\ req' = [req EXCEPT ![s] =
                   Respond(r, 200, [message |-> "Account deleted"], "exec")]
  /\ UNCHANGED <<now, nextId, hits, passed, lastRl, resetIn>>

---------------------------------------------------------------------------
(* Authentication and account deletion under concurrent clients *)

\* caller, route, Idempotency-Key, body
AcctCreates ==
  { <<1, "POST2", KeyK, BodyA>>,
    <<NoHeader, "POST2", KeyK, BodyA>>,
    <<BadToken, "POST1", KeyK, BodyA>> }

\* caller, route, task id, body
AcctWrites ==
  { <<1, "PUT2", 1, BodyBAssign>>,
    <<NotBearer, "PUT2", 1, BodyB>>,
    <<NoHeader, "PUT1", 1, BodyB>>,
    <<BadToken, "PATCH2", 1, BodyCompleted>>,
    <<NotBearer, "PATCH1", 1, BodyCompleted>>,
    <<NoHeader, "DELETE2", 1, <<>>>>,
    <<BadToken, "DELETE1", 1, <<>>>> }

\* caller, route, task id
AcctReads == { <<1, "GET1", 1>>, <<NotBearer, "GET1", 1>> }

\* caller, route, query
AcctLists == { <<1, "LIST1", QueryNone>>, <<NoHeader, "LIST1", QueryNone>> }

\* caller, route
AcctMe ==
  { <<1, "ME_GET">>, <<BadToken, "ME_GET">>,
    <<1, "ME_PUT">>, <<NoHeader, "ME_PUT">> }

AcctDeletes == {1, 2, NotBearer}

NextAccount ==
  \/ \E s \in Slots : \E i \in AcctCreates : PostBegin(s, i[1], i[2], i[3], i[4])
  \/ \E s \in Slots : PostCreate(s)
  \/ \E s \in Slots : PostUpsert(s)
  \/ \E s \in Slots : \E i \in AcctWrites : WriteBegin(s, i[1], i[2], i[3], i[4])
  \/ \E s \in Slots : WritePersist(s)
  \/ \E s \in Slots : \E i \in AcctReads : GetTask(s, i[1], i[2], i[3])
  \/ \E s \in Slots : \E i \in AcctLists : GetList(s, i[1], i[2], i[3])
  \/ \E s \in Slots : \E i \in AcctMe : UsersMe(s, i[1], i[2])
  \/ \E s \in Slots : \E u \in AcctDeletes : DeleteMeBegin(s, u)
  \/ \E s \in Slots : DeleteMeCommit(s)

SpecAccount == Init /\ [][NextAccount]_vars

\* the routes behind authenticate
AuthRoutes ==
  PostRoutes \cup WriteRoutes \cup {"GET1", "LIST1", "ME_GET", "ME_PUT", "ME_DELETE"}

\* C12: mandatory authentication.  On every route behind authenticate a
\* request with no Authorization header, with one that is not a bearer
\* credential, or with a token that does not verify is answered 401
\* (NO_TOKEN, NO_TOKEN, INVALID_TOKEN) in the step that receives it; the
\* handler does not run: tasks, users and idempotency records are unchanged
\* and the request takes no further step.
C12_MandatoryAuth ==
  [][ \A s \in Slots :
        LET r == req[s]
            q == req'[s]
        IN  /\ ( /\ r.pc = "idle" /\ q.pc # "idle"
                 /\ q.route \in AuthRoutes /\ q.cred \notin UserIds )
               => ( /\ q.pc = "done"
                    /\ q.status = 401
                    /\ q.resp = ErrorBody(IF q.cred = BadToken
                                            THEN "INVALID_TOKEN" ELSE "NO_TOKEN")
                    /\ tasks' = tasks /\ nextId' = nextId
                    /\ idem' = idem /\ users' = users )
            /\ (r.pc # "idle" /\ r.route \in AuthRoutes /\ r.cred \notin UserIds)
               => q = r
    ]_vars

C12_Witness ==
  \E s, t, x \in Slots :
    /\ Done(s) /\ req[s].route = "POST2" /\ req[s].status = 201
    /\ Done(t) /\ Then(s, t) /\ req[t].route = "DELETE2"
    /\ req[t].cred = NoHeader /\ req[t].status = 401
    /\ Done(x) /\ req[x].route = "PATCH2" /\ req[x].cred = BadToken
    /\ req[x].resp = ErrorBody("INVALID_TOKEN")
    /\ Cardinality(tasks) = 1

\* C18: owner integrity.  Every stored task's owner is an existing user (and
\* so is its assignee, when it has one).  DELETE /users/me either removes the
\* user together with every task they own and clears assignedTo where it
\* named them, leaving all other tasks as they were, or changes nothing; a
\* request bearing the token of a deleted user leaves no task behind.
C18_OwnerIntegrity ==
  [][ /\ \A t \in tasks' : t.ownerId \in users' /\ t.assignedTo \in users' \cup {0}
      /\ \A s \in Slots :
           LET r == req[s]
               q == req'[s]
               u == r.user.userId
           IN  (r.pc = "tx" /\ q.pc # "tx")
               => IF q.status = 200
                    THEN /\ users' = users \ {u}
                         /\ \A t \in tasks' : t.ownerId # u /\ t.assignedTo # u
                         /\ \A t \in tasks :
                              t.ownerId # u =>
                                \E t2 \in tasks' :
                                  /\ t2.id = t.id
                                  /\ t2 = [t EXCEPT !.assignedTo =
                                             IF @ = u THEN 0 ELSE @]
                    ELSE users' = users /\ tasks' = tasks /\ idem' = idem
    ]_vars

C18_Witness ==
  \E s, t, x \in Slots :
    /\ Done(s) /\ req[s].route = "POST2" /\ req[s].cred = 1
    /\ req[s].status = 201 /\ req[s].created \notin TaskIds
    /\ Done(t) /\ Then(s, t) /\ req[t].route = "ME_DELETE" /\ req[t].cred = 1
    /\ req[t].status = 200
    /\ Done(x) /\ Then(t, x) /\ req[x].route = "POST2" /\ req[x].cred = 1
    /\ req[x].status = 500 /\ req[x].created = 0
    /\ 1 \notin users /\ tasks = {}

---------------------------------------------------------------------------
(* The rate limiter in front of the routes.  express-rate-limit with its   *)
(* default memory store: each request increments the counter of its key    *)
(* (awaited, so the route runs in a later step), a request whose count     *)
(* exceeds max is answered by `handler`, the others go on with next(); the  *)
(* store drops a key's counter when its window of WINDOW_MS has passed.    *)

\* totalHits > max
overLimit(count, max) == count > max

\* windowMs of the limiter, milliseconds: 15 * 60 * 1000
WINDOW_MS == 900000

\* a Retry-After that rounds down
retryAfterFloor(resetMs) == resetMs \div 1000

\* Math.ceil(resetMs / 1000) with resetMs = Math.max(0, resetTime - Date.now())
retryAfterOf(resetMs) ==
  LET ms == IF resetMs > 0 THEN resetMs ELSE 0
  IN  (ms + 999) \div 1000

\* the body of the 429 that `handler` sends
RateLimitBody ==
  [error |-> [code |-> "RATE_LIMIT_EXCEEDED",
              fields |-> {"code", "message", "retryAfter"}]]

\* the keys that have a counter in the store
Counted == {k \in LimiterKeys : hits[k] > 0}

\* a request of caller u may be sent
MaySend(u) ==
  LET user == CallerToken(u)
      key == keyGenerator(user)
  IN  /\ key \in Counted \/ Cardinality(Counted) < MaxClients
      /\ hits[key] < maxOf(user) + MaxOver

\* the limiter's part of a request: the counter, the decision
limiterStep(u) ==
  LET user == CallerToken(u)
      key == keyGenerator(user)
      over == overLimit(hits[key] + 1, maxOf(user))
      \* the first request of a key opens its window
      reset == IF hits[key] = 0 THEN WINDOW_MS ELSE resetIn[key]
  IN  /\ hits' = [hits EXCEPT ![key] = @ + 1]
      /\ resetIn' = [resetIn EXCEPT ![key] = reset]
      /\ passed' = IF over THEN passed ELSE [passed EXCEPT ![key] = @ + 1]
      /\ lastRl' = [cred |-> u, key |-> key, limit |-> maxOf(user),
                    status |-> IF over THEN 429 ELSE 0,
                    retryAfter |-> IF over THEN retryAfterOf(reset) ELSE 0,
                    \* history: the time passed since the decision, and
                    \* whether the caller had been answered 429 and had let
                    \* the advertised delay pass before this request
                    waited |-> 0,
                    recovered |-> /\ lastRl # NoDecision /\ lastRl.key = key
                                  /\ lastRl.status = 429
                                  /\ lastRl.waited >= lastRl.retryAfter * 1000]

\* a request to a route that only reads (GET /api/v2/tasks): optionalAuth,
\* the limiter, then the list handler, which changes nothing.  These
\* requests fill the window between the creates that the run follows.
Traffic(u) ==
  /\ MaySend(u)
  /\ \A s \in Slots : req[s].pc \in {"idle", "done"}
  /\ limiterStep(u)
  /\ UNCHANGED <<now, tasks, nextId, idem, req, users, refreshTokens>>

\* a create request enters /api: optionalAuth, then the limiter, which
\* answers 429 or passes the request on to its route
Admit(s, u) ==
  /\ MayStart(s)
  /\ MaySend(u)
  /\ limiterStep(u)
  /\ LET r0 == [IdleReq EXCEPT !.route = "API", !.cred = u,
                               !.user = CallerToken(u),
                               !.after = DoneSlots, !.tBegin = now]
     IN  req' = [req EXCEPT ![s] =
           IF lastRl'.status = 429
             THEN Respond(r0, 429, RateLimitBody, "limited")
             ELSE [r0 EXCEPT !.pc = "admitted"]]
  /\ UNCHANGED <<now, tasks, nextId, idem, users, refreshTokens>>

\* the window of a key has passed: the store forgets its counter
WindowExpires(key) ==
  /\ hits[key] > 0
  /\ \A s \in Slots : req[s].pc \in {"idle", "done"}
  /\ hits' = [hits EXCEPT ![key] = 0]
  /\ resetIn' = [resetIn EXCEPT ![key] = 0]
  /\ passed' = [passed EXCEPT ![key] = 0]
  /\ lastRl' = NoDecision
  /\ UNCHANGED <<now, tasks, nextId, idem, req, users, refreshTokens>>

\* next(): the request that the limiter passed on reaches POST /api/v2/tasks
PostAdmitted(s, u) ==
  /\ req[s].pc = "admitted"
  /\ PostBegin(s, u, "POST2", KeyK, BodyA)

LimitCallers == {NoHeader, 1, 2, 3}

NextLimit ==
  \/ \E u \in LimitCallers : Traffic(u)
  \/ \E s \in Slots : \E u \in LimitCallers : Admit(s, u)
  \/ \E s \in Slots : \E u \in LimitCallers : PostAdmitted(s, u)
  \/ \E s \in Slots : PostCreate(s)
  \/ \E s \in Slots : PostUpsert(s)
  \/ \E k \in LimiterKeys : WindowExpires(k)

SpecLimit == Init /\ [][NextLimit]_vars

\* the role of the caller behind a limiter key, by the user table
RoleOfKey(k) == IF k[1] = "anon" THEN "anonymous" ELSE UserDb[k[2]].role

\* the quota of a role: the configured tiers, the highest for an admin
QuotaOfRole(role) ==
  CASE role = "anonymous" -> ROLE_LIMITS.anonymous
    [] role = "user" -> ROLE_LIMITS.user
    [] OTHER -> ROLE_LIMITS.premium

\* C13: rate-limit enforcement.  Within one window the number of requests of
\* a caller key that the limiter passed on to the routes never exceeds the
\* quota of the caller's role; a request that arrives when the key's count
\* has reached the quota is answered 429 RATE_LIMIT_EXCEEDED, is not passed
\* on, and the step changes neither the tasks nor the idempotency records.
C13_RateLimit ==
  [][ /\ \A k \in LimiterKeys : passed'[k] <= QuotaOfRole(RoleOfKey(k))
      /\ \A k \in LimiterKeys :
           (hits'[k] = hits[k] + 1 /\ hits[k] >= QuotaOfRole(RoleOfKey(k)))
           => ( /\ passed' = passed
                /\ lastRl'.status = 429
                /\ tasks' = tasks /\ nextId' = nextId /\ idem' = idem
                /\ \A s \in Slots :
                     (req[s].pc = "idle" /\ req'[s].pc # "idle")
                     => ( /\ req'[s].pc = "done"
                          /\ req'[s].status = 429
                          /\ req'[s].resp = RateLimitBody ) )
    ]_vars

C13_Witness ==
  \E s, t \in Slots :
    /\ Done(s) /\ req[s].cred = 1 /\ req[s].status = 201
    /\ Done(t) /\ Then(s, t) /\ req[t].cred = 1 /\ req[t].status = 429
    /\ passed[<<"user", 1>>] = ROLE_LIMITS.user
    /\ hits[<<"user", 1>>] > ROLE_LIMITS.user
    /\ Cardinality(tasks) = 1

\* C14: role quota ordering.  The quota the limiter applies to a request
\* grows with the caller's role: anonymous below user, user below premium,
\* and an admin's at least premium's.
C14_QuotaOrdering ==
  lastRl # NoDecision =>
    LET role == IF lastRl.cred \in UserIds THEN UserDb[lastRl.cred].role
                ELSE "anonymous"
    IN  /\ role = "anonymous" => lastRl.limit < maxOf(TokenOf(1))
        /\ role = "user" => /\ lastRl.limit > maxOf(NoUser)
                            /\ lastRl.limit < maxOf(TokenOf(2))
        /\ role = "premium" => lastRl.limit > maxOf(TokenOf(1))
        /\ role = "admin" => lastRl.limit >= maxOf(TokenOf(2))

---------------------------------------------------------------------------
(* The create endpoints when the write of the idempotency record fails *)

\* a wrapper that undoes the create and answers 500 when the upsert throws
PostUpsertAborts(s) ==
  /\ req[s].pc = "upsert"
  /\ tasks' = {t \in tasks : t.id # req[s].created}
  /\ req' = [req EXCEPT ![s] =
       Respond(req[s], 500, errorHandler("INTERNAL_ERROR"), "unsaved")]
  /\ UNCHANGED <<now, nextId, idem, users, hits, passed, lastRl, refreshTokens, resetIn>>

\* the wrapped res.json when prisma.idempotencyKey.upsert throws (the
\* database is unreachable, the statement times out): the catch logs the
\* error and the response is sent all the same
PostUpsertFails(s) ==
  /\ req[s].pc = "upsert"
  /\ LET r == req[s]
         out == IF isV1Basic(pathScopeOf(r.route)) THEN pickBasic(r.resp)
                ELSE r.resp
     IN  req' = [req EXCEPT ![s] = Respond(r, r.status, out, "unsaved")]
  /\ UNCHANGED <<now, tasks, nextId, idem, users, hits, passed, lastRl, refreshTokens, resetIn>>

\* caller, route, Idempotency-Key, body
FaultInputs ==
  { <<1, "POST2", KeyK, BodyA>>,
    <<1, "POST2", KeyK, BodyB>>,
    <<1, "POST1", KeyK, BodyA>>,
    <<2, "POST2", KeyK, BodyA>> }

NextFault ==
  \/ \E s \in Slots : \E i \in FaultInputs : PostBegin(s, i[1], i[2], i[3], i[4])
  \/ \E s \in Slots : PostCreate(s)
  \/ \E s \in Slots : PostUpsert(s)
  \/ \E s \in Slots : PostUpsertFails(s)

SpecFault == Init /\ [][NextFault]_vars

\* the write of the record of s failed
Unsaved(s) == Done(s) /\ req[s].outcome = "unsaved"

\* C15: best-effort cache write.  When the create succeeded and the write of
\* the idempotency record fails, the response is still the 201 with the
\* created task, the task stays stored and no record is written; a later
\* retry of the same request under a key that has no other use then finds no
\* record and goes on to the create handler as a first request does.
C15_BestEffortWrite ==
  [][ \A s \in Slots :
        LET r == req[s]
            q == req'[s]
        IN  /\ (r.pc = "upsert" /\ r.status = 201 /\ Unsaved(s)')
               => ( /\ q.status = 201
                    /\ q.resp.id = r.created
                    /\ q.resp \in {TaskById(r.created), pickBasic(TaskById(r.created))}
                    /\ tasks' = tasks /\ r.created \in TaskIds'
                    /\ idem' = idem )
            /\ ( /\ r.pc = "idle" /\ q.pc # "idle" /\ q.route \in PostRoutes
                 /\ \E x \in Slots :
                      /\ Unsaved(x) /\ req[x].status = 201
                      /\ SameRequest(x, s)'
                 /\ \A x \in Slots \ {s} :
                      (Started(x) /\ SameScope(x, s)') => Unsaved(x) )
               => ( /\ q.existing = NoRow
                    /\ q.pc = "create"
                    /\ tasks' = tasks )
    ]_vars

C15_Witness ==
  \E s, t \in Slots :
    /\ Unsaved(s) /\ req[s].status = 201 /\ req[s].created \in TaskIds
    /\ Then(s, t) /\ SameRequest(s, t) /\ Done(t)
    /\ req[t].existing = NoRow
    /\ req[t].status = 201 /\ req[t].created # req[s].created
    /\ req[t].created \in TaskIds
    /\ Cardinality(tasks) = 2

---------------------------------------------------------------------------
(* Validation of the enumerated fields, the scope of a key, and the v1     *)
(* create without a title                                                  *)

\* the body carries a status or a priority outside the enumerations
CarriesBadEnum(body) ==
  \/ Has(body, "priority") /\ Get(body, "priority") \notin Priorities
  \/ Has(body, "status") /\ Get(body, "status") \notin Statuses

\* C17: enum validity.  Every stored task has an enumerated status and
\* priority, and a create or an update whose body carries a status or a
\* priority outside the enumerations is rejected: it is not answered 200 or
\* 201, it creates no task and it leaves the tasks as they are.
C17_EnumValidity ==
  [][ /\ \A t \in tasks' : t.status \in Statuses /\ t.priority \in Priorities
      /\ \A s \in Slots :
           LET r == req[s]
               q == req'[s]
           IN  ( /\ r.pc # "done" /\ q.pc = "done"
                 /\ q.route \in PostRoutes \cup PutRoutes \cup PatchRoutes
                 /\ CarriesBadEnum(q.body) )
               => ( /\ q.status \notin {200, 201}
                    /\ q.created = 0 )
    ]_vars

\* C19: endpoint reuse conflict.  A caller who used an Idempotency-Key on one
\* create endpoint and was answered 201, and then sends a create with the same
\* key to the other create endpoint, is answered 409 and no task is created.
C19_EndpointReuseConflict ==
  \A s, t \in Slots :
    ( /\ Done(s) /\ Done(t) /\ Then(s, t)
      /\ req[s].route \in PostRoutes /\ req[t].route \in PostRoutes
      /\ req[s].route # req[t].route
      /\ isAuthed(req[s].user) /\ req[s].user = req[t].user
      /\ req[s].rawKey # <<>> /\ req[s].rawKey = req[t].rawKey
      /\ req[s].status = 201 )
    => ( /\ req[t].status = 409
         /\ req[t].created = 0 )

\* C20: missing title on v1 create.  An authenticated POST /api/v1/tasks
\* with an Idempotency-Key and no title, the key not used before, is answered
\* 400 with a body whose error code is MISSING_FIELD and creates no task; a
\* create is answered 201, a replay 200 and a payload conflict 409.
C20_V1MissingTitle ==
  \A s \in Slots :
    ( Done(s) /\ req[s].route = "POST1" /\ isAuthed(req[s].user)
      /\ req[s].rawKey # <<>> )
    => ( /\ ( ~Truthy(req[s].body, "title") /\ req[s].existing = NoRow )
            => ( /\ req[s].status = 400
                 /\ req[s].resp = ErrorBody("MISSING_FIELD")
                 /\ req[s].created = 0 )
         /\ req[s].created # 0 => req[s].status = 201
         /\ req[s].outcome = "replay" => req[s].status = 200
         /\ req[s].outcome = "conflict" => req[s].status = 409 )

---------------------------------------------------------------------------
(* The shape of the error bodies *)

\* the error codes the routes, the middlewares and the error handler send
ErrorCodes ==
  { "MISSING_FIELD", "MISSING_IDEMPOTENCY_KEY", "INVALID_PRIORITY",
    "INVALID_STATUS", "FORBIDDEN_HIGH_PRIORITY",
    "FORBIDDEN_HIGH_PRIORITY_UPDATE", "FORBIDDEN", "NO_TOKEN",
    "INVALID_TOKEN", "NOT_FOUND", "IDEMPOTENCY_KEY_REUSED",
    "RATE_LIMIT_EXCEEDED", "INTERNAL_ERROR", "P2003", "P2025" }

\* C21: uniform error body.  Every response with an error status (400 and
\* above) has the body {error: {code, message, details, timestamp, path}},
\* all five fields present.
C21_UniformErrorBody ==
  \A s \in Slots :
    (Done(s) /\ req[s].status >= 400)
      => \E code \in ErrorCodes : req[s].resp = errorHandler(code)

---------------------------------------------------------------------------
(* /api/v1/auth: login, refresh, logout.  A refresh token is the payload   *)
(* jwt.sign puts in it; the client presents the token a login returned, or *)
(* nothing, or a string that jwt.verify rejects.  randomUUID is the number *)
(* of the request that draws it.  Every request of a run falls within the  *)
(* lifetime of the tokens it bears.                                        *)

\* jwt.sign payload of the refresh token
generateRefreshToken(user, tokenId) == [userId |-> user.id, tokenId |-> tokenId]

NoToken == [none |-> TRUE]
ForgedToken == [forged |-> TRUE]

\* the refresh tokens that logins have handed to clients
IssuedTokens ==
  {req[s].resp.refreshToken :
     s \in {x \in Slots : Done(x) /\ req[x].route = "LOGIN" /\ req[x].status = 200}}

\* prisma.refreshToken.findUnique({ where: { tokenId } })
findUniqueToken(tokenId) ==
  IF \E x \in refreshTokens : x.tokenId = tokenId
    THEN CHOOSE x \in refreshTokens : x.tokenId = tokenId
    ELSE NoRow

\* !stored || stored.revoked
refreshRefused(stored) == stored = NoRow \/ stored.revoked

\* POST /api/v1/auth/login with the credentials of user u: the user row is
\* read, the password compared, a RefreshToken row inserted
Login(s, u) ==
  /\ MayStart(s)
  /\ u \in UserIds
  /\ LET r0 == [IdleReq EXCEPT !.route = "LOGIN", !.after = DoneSlots,
                               !.tBegin = now]
     IN  IF u \notin users
           THEN /\ refreshTokens' = refreshTokens
                /\ req' = [req EXCEPT ![s] =
                     Respond(r0, 401, ErrorBody("INVALID_CREDENTIALS"), "error")]
         ELSE /\ refreshTokens' = refreshTokens \cup
                   {[tokenId |-> s, userId |-> u, revoked |-> FALSE]}
              /\ req' = [req EXCEPT ![s] =
                   Respond(r0, 200,
                           [accessToken |-> generateAccessToken(UserDb[u]),
                            refreshToken |-> generateRefreshToken(UserDb[u], s)],
                           "exec")]
  /\ UNCHANGED <<now, tasks, nextId, idem, users, hits, passed, lastRl, resetIn>>

\* POST /api/v1/auth/refresh: the token is verified and its row read
RefreshBegin(s, token) ==
  /\ MayStart(s)
  /\ token \in IssuedTokens \cup {NoToken, ForgedToken}
  /\ LET r0 == [IdleReq EXCEPT !.route = "REFRESH", !.body = <<token>>,
                               !.after = DoneSlots, !.tBegin = now]
     IN  req' = [req EXCEPT ![s] =
           IF token = NoToken
             THEN Respond(r0, 400, ErrorBody("NO_TOKEN"), "error")
           ELSE IF token = ForgedToken
             THEN Respond(r0, 401, ErrorBody("INVALID_TOKEN"), "error")
           ELSE IF refreshRefused(findUniqueToken(token.tokenId))
             THEN Respond([r0 EXCEPT !.id = token.tokenId], 401,
                          ErrorBody("TOKEN_REVOKED"), "revoked")
           ELSE [r0 EXCEPT !.pc = "issue", !.id = token.tokenId]]
  /\ UNCHANGED <<now, tasks, nextId, idem, users, hits, passed, lastRl,
                 refreshTokens, resetIn>>

\* the user row is read and a new access token signed; a null user makes
\* generateAccessToken throw, next(err), errorHandler
RefreshIssue(s) ==
  /\ req[s].pc = "issue"
  /\ LET r == req[s]
         u == r.body[1].userId
     IN  req' = [req EXCEPT ![s] =
           IF u \in users
             THEN Respond(r, 200,
                          [accessToken |-> generateAccessToken(UserDb[u])],
                          "exec")
             ELSE Respond(r, 500, errorHandler("INTERNAL_ERROR"), "error")]
  /\ UNCHANGED <<now, tasks, nextId, idem, users, hits, passed, lastRl,
                 refreshTokens, resetIn>>

\* POST /api/v1/auth/logout: the token is verified and its row updated
\* (revoked: true); without the row the update throws P2025
Logout(s, token) ==
  /\ MayStart(s)
  /\ token \in IssuedTokens \cup {NoToken, ForgedToken}
  /\ LET r0 == [IdleReq EXCEPT !.route = "LOGOUT", !.body = <<token>>,
                               !.after = DoneSlots, !.tBegin = now]
     IN  IF token = NoToken
           THEN /\ refreshTokens' = refreshTokens
                /\ req' = [req EXCEPT ![s] =
                     Respond(r0, 400, errorHandler("MISSING_REFRESH_TOKEN"), "error")]
         ELSE IF token = ForgedToken
           THEN /\ refreshTokens' = refreshTokens
                /\ req' = [req EXCEPT ![s] =
                     Respond(r0, 403, errorHandler("INVALID_TOKEN"), "error")]
         ELSE IF findUniqueToken(token.tokenId) = NoRow
           THEN /\ refreshTokens' = refreshTokens
                /\ req' = [req EXCEPT ![s] =
                     Respond([r0 EXCEPT !.id = token.tokenId], 500,
                             errorHandler("P2025"), "error")]
         ELSE /\ refreshTokens' =
                   {IF x.tokenId = token.tokenId THEN [x EXCEPT !.revoked = TRUE]
                    ELSE x : x \in refreshTokens}
              /\ req' = [req EXCEPT ![s] =
                   Respond([r0 EXCEPT !.id = token.tokenId], 200,
                           [ok |-> TRUE], "exec")]
  /\ UNCHANGED <<now, tasks, nextId, idem, users, hits, passed, lastRl, resetIn>>

\* a request to a protected route that bears the access token a login or a
\* refresh returned for user u
BearsAccessToken(s, u) ==
  /\ \E x \in Slots :
       /\ Done(x) /\ req[x].status = 200 /\ req[x].route \in {"LOGIN", "REFRESH"}
       /\ req[x].resp.accessToken = TokenOf(u)
  /\ UsersMe(s, u, "ME_GET")

\* what a client may send as refreshToken
PresentedTokens ==
  {generateRefreshToken(UserDb[u], k) : u \in {1, 2}, k \in Slots}
    \cup {NoToken, ForgedToken}

NextAuth ==
  \/ \E s \in Slots : \E u \in {1, 2} : Login(s, u)
  \/ \E s \in Slots : \E t \in PresentedTokens : RefreshBegin(s, t)
  \/ \E s \in Slots : RefreshIssue(s)
  \/ \E s \in Slots : \E t \in PresentedTokens : Logout(s, t)
  \/ \E s \in Slots : \E u \in {1, 2} : BearsAccessToken(s, u)
  \/ \E s \in Slots : DeleteMeBegin(s, 1)
  \/ \E s \in Slots : DeleteMeCommit(s)

SpecAuth == Init /\ [][NextAuth]_vars

\* C22: logout blacklists both tokens.  After a successful logout of a
\* session, every later refresh with that session's refresh token is
\* refused (401), and every later request to a protected route that bears
\* the session's access token is refused 401 by authenticate.  The session
\* here is the only one its user ever opened, so the access token is its.
C22_LogoutBlacklists ==
  \A s, t \in Slots :
    ( /\ Done(s) /\ req[s].route = "LOGOUT" /\ req[s].status = 200
      /\ Then(s, t) /\ Done(t) )
    => LET token == req[s].body[1]
           u == token.userId
       IN  /\ (req[t].route = "REFRESH" /\ req[t].body = <<token>>)
                => req[t].status = 401
           /\ ( /\ req[t].route = "ME_GET" /\ req[t].cred = u
                /\ Cardinality({x \in Slots : /\ Done(x) /\ req[x].route = "LOGIN"
                                              /\ req[x].status = 200
                                              /\ req[x].resp.refreshToken.userId = u}) = 1 )
                => req[t].status = 401

---------------------------------------------------------------------------
(* Order of the checks *)

\* C23: EXPIRED-MISS regardless of fingerprint.  A create that finds a
\* record of its scoped key whose expiresAt has passed is a MISS whatever
\* its payload, also when its fingerprint differs from the stored one: a
\* create the handler accepts executes and is answered 201, never 409.
C23_ExpiredMissAnyPayload ==
  \A t \in Slots :
    ( /\ Done(t) /\ req[t].route \in PostRoutes
      /\ req[t].existing # NoRow
      /\ req[t].existing.expiresAt <= req[t].tBegin
      /\ createVerdict(req[t].route, req[t].user, req[t].body) = "ok" )
    => ( /\ req[t].status # 409
         /\ req[t].status = 201
         /\ req[t].created # 0 )

\* caller, route, Idempotency-Key, body
OrderCreates ==
  { <<2, "POST2", KeyK, BodyA>>,
    <<1, "POST2", KeyK, BodyA>>,
    <<1, "POST2", KeyK, BodyNoTitle>> }

\* caller, route, task id, body: writes to the first task and to an id that
\* no task has
OrderWrites ==
  { <<1, "PUT2", 1, BodyNoTitle>>,
    <<1, "PUT2", 1, BodyBUrgent>>,
    <<1, "PUT2", 1, BodyBArchived>>,
    <<1, "PUT2", 1, BodyBHigh>>,
    <<1, "PUT2", 1, BodyB>>,
    <<1, "PUT1", 1, BodyNoTitle>>,
    <<1, "PUT2", 3, BodyB>>,
    <<1, "PUT1", 3, BodyB>>,
    <<3, "PATCH2", 3, BodyCompleted>>,
    <<1, "PATCH1", 3, BodyCompleted>>,
    <<1, "DELETE2", 3, <<>>>>,
    <<3, "DELETE1", 3, <<>>>> }

NextOrder ==
  \/ \E s \in Slots : \E i \in OrderCreates : PostBegin(s, i[1], i[2], i[3], i[4])
  \/ \E s \in Slots : PostCreate(s)
  \/ \E s \in Slots : PostUpsert(s)
  \/ \E s \in Slots : \E i \in OrderWrites : WriteBegin(s, i[1], i[2], i[3], i[4])
  \/ \E s \in Slots : WritePersist(s)

SpecOrder == Init /\ [][NextOrder]_vars

\* C24: check order on create.  The title check runs before the
\* idempotency interception: an authenticated create with a key and without
\* a title is answered 400 MISSING_FIELD at once, no record is looked up for
\* it, and no record of its fingerprint is ever stored.
C24_TitleBeforeIdempotency ==
  \A s \in Slots :
    ( /\ Started(s) /\ req[s].route \in PostRoutes /\ isAuthed(req[s].user)
      /\ req[s].rawKey # <<>> /\ ~Truthy(req[s].body, "title") )
    => ( /\ Done(s)
         /\ req[s].status = 400
         /\ req[s].resp = ErrorBody("MISSING_FIELD")
         /\ req[s].scopedKey = <<>>
         /\ \A x \in idem : x.requestHash # requestHashOf(req[s].body) )

\* C25: check order on update.  A PUT to an existing task by a caller who is
\* neither its owner nor an admin, whose body has no title, an invalid status
\* or priority, or priority high that a plain user may not set, is answered
\* with the validation or high-priority error, not with the ownership 403.
C25_ValidationBeforeAbac ==
  [][ \A s \in Slots :
        LET q == req'[s]
        IN  ( /\ req[s].pc = "idle" /\ q.pc # "idle"
              /\ q.route \in PutRoutes /\ isAuthed(q.user)
              /\ q.id \in TaskIds
              /\ TaskById(q.id).ownerId # q.user.userId
              /\ q.user.role = "user"
              /\ \/ ~Truthy(q.body, "title")
                 \/ CarriesBadEnum(q.body)
                 \/ Has(q.body, "priority") /\ Get(q.body, "priority") = "high" )
            => ( /\ q.pc = "done"
                 /\ q.resp \in {ErrorBody("MISSING_FIELD"),
                                ErrorBody("INVALID_PRIORITY"),
                                ErrorBody("INVALID_STATUS"),
                                ErrorBody("FORBIDDEN_HIGH_PRIORITY_UPDATE")}
                 /\ q.resp # ErrorBody("FORBIDDEN") )
    ]_vars

\* C27: write to a missing task.  A PUT, PATCH status or DELETE by an
\* authenticated caller on an id that no task has is answered 404 NOT_FOUND,
\* not 403, and changes no task.
C27_WriteMissingTask ==
  [][ \A s \in Slots :
        LET q == req'[s]
        IN  ( /\ req[s].pc = "idle" /\ q.pc # "idle"
              /\ q.route \in WriteRoutes /\ isAuthed(q.user)
              /\ q.id \notin TaskIds )
            => ( /\ q.pc = "done"
                 /\ q.status = 404
                 /\ q.resp = ErrorBody("NOT_FOUND")
                 /\ tasks' = tasks )
    ]_vars

---------------------------------------------------------------------------
(* The high-priority gate while a subscription runs out.  The caller holds *)
(* an access token issued (by login, later by refresh) from a user row     *)
(* with isPremium true; the clock passes the row's subscriptionExpiry.     *)

\* caller, route, Idempotency-Key, body
PremiumCreates ==
  { <<4, "POST2", KeyK, BodyA>>,
    <<4, "POST2", KeyK, BodyAHigh>>,
    <<2, "POST2", KeyK, BodyAHigh>> }

\* caller, route, task id, body
PremiumWrites ==
  { <<4, "PUT2", 1, BodyBHigh>>,
    <<4, "PUT2", 1, BodyB>> }

NextPremium ==
  \/ \E s \in Slots : \E i \in PremiumCreates : PostBegin(s, i[1], i[2], i[3], i[4])
  \/ \E s \in Slots : PostCreate(s)
  \/ \E s \in Slots : PostUpsert(s)
  \/ \E s \in Slots : \E i \in PremiumWrites : WriteBegin(s, i[1], i[2], i[3], i[4])
  \/ \E s \in Slots : WritePersist(s)
  \/ Tick

SpecPremium == Init /\ [][NextPremium]_vars

\* the caller of s is a premium user, not an admin, whose subscription had
\* ended when s was handled, and whose token says isPremium
Lapsed(s) ==
  /\ isAuthed(req[s].user)
  /\ LET row == UserDb[req[s].user.userId]
     IN  /\ row.role # "admin" /\ row.isPremium
         /\ row.subscriptionExpiry <= req[s].tBegin
  /\ req[s].user.isPremium

---------------------------------------------------------------------------
(* What the reads disclose *)

\* the tasks the GET /:id handler of a route shows to a caller
SeenBy(route, user) ==
  {t \in tasks : IF route = "GET2" THEN canSeeV2(user, t) ELSE canSeeV1(user, t)}

\* C28: read non-disclosure.  The answer of GET /tasks/:id is determined by
\* the tasks the caller may see: the task when it is among them, and
\* otherwise 404 NOT_FOUND with one and the same message, whether no task
\* has the id or a task the caller may not see has it.
C28_ReadNonDisclosure ==
  [][ \A s \in Slots :
        LET q == req'[s]
        IN  ( /\ req[s].pc = "idle" /\ q.pc # "idle"
              /\ q.route \in GetRoutes
              /\ q.route = "GET1" => isAuthed(q.user) )
            => LET seen == SeenBy(q.route, q.user)
               IN  IF \E t \in seen : t.id = q.id
                     THEN /\ q.status = 200
                          /\ \E t \in seen : q.resp \in {t, pickBasic(t)}
                     ELSE /\ q.pc = "done"
                          /\ q.status = 404
                          /\ q.resp = notFoundBody("Task not found")
    ]_vars

C28_Witness ==
  \E s, t \in Slots :
    /\ Done(s) /\ Done(t) /\ Then(s, t)
    /\ req[s].route \in GetRoutes /\ req[t].route = req[s].route
    /\ req[s].cred = req[t].cred /\ req[s].id = req[t].id
    /\ req[s].outcome = "not_found" /\ req[t].outcome = "not_visible"
    /\ req[t].id \in TaskIds
    /\ req[s].status = req[t].status /\ req[s].resp = req[t].resp

---------------------------------------------------------------------------
(* PATCH /:id/status from every current status *)

BodyPending == << <<"status", "pending">> >>

\* caller, route, task id, body
StatusWrites ==
  { <<u, route, 1, body>> :
      u \in {1, 3}, route \in {"PATCH2", "PATCH1"},
      body \in {BodyPending, BodyInProgress, BodyCompleted, BodyBadStatus, <<>>} }

NextStatus ==
  \/ \E s \in Slots : PostBegin(s, 1, "POST2", KeyK, BodyA)
  \/ \E s \in Slots : PostCreate(s)
  \/ \E s \in Slots : PostUpsert(s)
  \/ \E s \in Slots : \E i \in StatusWrites : WriteBegin(s, i[1], i[2], i[3], i[4])
  \/ \E s \in Slots : WritePersist(s)

SpecStatus == Init /\ [][NextStatus]_vars

\* C29: status transitions.  A PATCH status of an existing task by its owner
\* or an admin with a value among pending, in_progress, completed is accepted
\* whatever the current status, answered 200, and leaves the task with the
\* requested status; any other value (or none) is answered 400
\* INVALID_STATUS and changes nothing.
C29_StatusTransitions ==
  [][ \A s \in Slots :
        LET r == req[s]
            q == req'[s]
        IN  /\ ( /\ r.pc = "idle" /\ q.pc # "idle"
                 /\ q.route \in PatchRoutes /\ isAuthed(q.user)
                 /\ q.id \in TaskIds
                 /\ \/ TaskById(q.id).ownerId = q.user.userId
                    \/ UserDb[q.user.userId].role = "admin" )
               => IF Has(q.body, "status") /\ Get(q.body, "status") \in Statuses
                    THEN q.pc = "persist" /\ tasks' = tasks
                    ELSE /\ q.pc = "done" /\ q.status = 400
                         /\ q.resp = ErrorBody("INVALID_STATUS")
                         /\ tasks' = tasks
            /\ (r.pc = "persist" /\ r.route \in PatchRoutes /\ q.pc # "persist")
               => /\ q.pc = "done" /\ q.status = 200
                  /\ q.resp.status = Get(r.body, "status")
                  /\ \E t \in tasks' : t.id = r.id /\ t.status = Get(r.body, "status")
                  /\ {t \in tasks' : t.id # r.id} = {t \in tasks : t.id # r.id}
    ]_vars

C29_Witness ==
  \E s, t \in Slots :
    /\ Done(s) /\ Done(t) /\ Then(s, t)
    /\ req[s].route = "PATCH2" /\ req[t].route = "PATCH2"
    /\ req[s].cred = 1 /\ req[t].cred = 3
    /\ req[s].body = BodyCompleted /\ req[s].status = 200
    /\ req[s].resp.status = "completed"
    /\ req[t].body = BodyPending /\ req[t].status = 200
    /\ TaskById(1).status = "pending"

---------------------------------------------------------------------------
(* The limiter while time passes within and beyond a window *)

\* the instants a run visits: milliseconds to (negative: since) the end of
\* the window of a key
Instants ==
  { WINDOW_MS - 1, WINDOW_MS - 1000, WINDOW_MS - 1001, 1000, 999, 1, 0,
    -1, -1000 }

\* time passes for a key that has a window or that was answered last, up
\* to the instant r; at the end of its window the store forgets its counter
Elapse(key, r) ==
  /\ hits[key] > 0 \/ (lastRl # NoDecision /\ lastRl.key = key)
  /\ \A k \in Counted : k = key
  /\ r \in Instants
  /\ r < resetIn[key]
  /\ resetIn' = [resetIn EXCEPT ![key] = r]
  /\ hits' = IF r <= 0 THEN [hits EXCEPT ![key] = 0] ELSE hits
  /\ passed' = IF r <= 0 THEN [passed EXCEPT ![key] = 0] ELSE passed
  /\ lastRl' = IF lastRl # NoDecision /\ lastRl.key = key
                 THEN [lastRl EXCEPT !.waited = @ + (resetIn[key] - r)]
                 ELSE lastRl
  /\ UNCHANGED <<now, tasks, nextId, idem, req, users, refreshTokens>>

RetryCallers == {NoHeader, 3}

NextRetry ==
  \/ \E u \in RetryCallers : Traffic(u)
  \/ \E k \in LimiterKeys : \E r \in Instants : Elapse(k, r)

SpecRetry == Init /\ [][NextRetry]_vars

\* C30: rate-limit recovery.  The Retry-After of a 429 is the time that
\* remains of the caller's window, in whole seconds rounded up, so never
\* less than what remains; and the next request of a caller who was answered
\* 429 and then let the advertised delay pass without sending anything is
\* admitted.
C30_RetryAfter ==
  [][ \A k \in LimiterKeys :
        hits'[k] = hits[k] + 1
        => /\ lastRl'.status = 429
              => /\ lastRl'.retryAfter * 1000 >= resetIn'[k]
                 /\ (lastRl'.retryAfter - 1) * 1000 < resetIn'[k]
                 /\ resetIn'[k] > 0
           /\ ( /\ lastRl # NoDecision /\ lastRl.key = k /\ lastRl.status = 429
                /\ lastRl.waited >= lastRl.retryAfter * 1000 )
              => ( /\ lastRl'.status # 429
                   /\ passed'[k] = 1 )
    ]_vars

C30_Witness ==
  /\ lastRl # NoDecision /\ lastRl.recovered
  /\ lastRl.status = 0
  /\ hits[lastRl.key] = 1 /\ passed[lastRl.key] = 1
  /\ resetIn[lastRl.key] = WINDOW_MS

---------------------------------------------------------------------------
(* What the idempotency records hold *)

\* the bodies of the error responses
ErrorBodies ==
  {ErrorBody(code) : code \in ErrorCodes} \cup
  {errorHandler(code) : code \in ErrorCodes} \cup {pickBasic(ErrorBody("MISSING_FIELD"))}

\* C31: only successful creates are replayed.  A record is stored only for
\* a create that created a task, so no record holds an error body, and no
\* create is answered from the cache (200) with the body of an error.
C31_OnlyCreatesReplayed ==
  /\ \A x \in idem : x.response \notin ErrorBodies
  /\ \A s \in Slots :
       (Done(s) /\ req[s].route \in PostRoutes /\ req[s].outcome = "replay")
       => req[s].resp \notin ErrorBodies

\* C32: commit before response.  The record of a create is written before
\* its 201 is sent, so a retry (same endpoint, caller, key and body) that the
\* client sends after it received the 201, within the record's lifetime, is
\* answered from the cache: 200 with the body of the 201.
C32_CommitBeforeResponse ==
  \A s, t \in Slots :
    ( /\ Done(s) /\ req[s].status = 201 /\ req[s].outcome # "unsaved"
      /\ Then(s, t) /\ SameRequest(s, t) /\ Done(t)
      /\ req[t].tBegin < req[s].tDone + TTL )
    => ( /\ req[t].outcome = "replay"
         /\ req[t].status = 200 )

\* C33: REPLAY and CONFLICT are read-only.  A create that is answered from
\* the cache (200) or with 409 is answered in the step that receives it, and
\* the step leaves the tasks, the id counter and every idempotency record as
\* they were: a replay does not move the record's expiresAt.
C33_ReplayConflictReadOnly ==
  [][ \A s \in Slots :
        ( /\ req[s].pc # "done" /\ req'[s].pc = "done"
          /\ req'[s].route \in PostRoutes
          /\ req'[s].outcome \in {"replay", "conflict"} )
        => ( /\ req[s].pc = "idle"
             /\ tasks' = tasks /\ nextId' = nextId
             /\ idem' = idem
             /\ req'[s].existing \in idem' )
    ]_vars

C33_Witness ==
  \E s, t \in Slots :
    /\ Done(s) /\ req[s].outcome = "replay" /\ req[s].status = 200
    /\ req[s].tBegin > 0
    /\ req[s].existing \in idem
    /\ req[s].existing.expiresAt = TTL
    /\ req[s].existing.expiresAt < req[s].tDone + TTL
    /\ Done(t) /\ req[t].outcome = "conflict" /\ req[t].status = 409
    /\ Cardinality(tasks) = 1

---------------------------------------------------------------------------
(* Frame properties of the task endpoints *)

\* C34: high-priority invariant across all endpoints.  A stored task has
\* priority high only if a request of an admin or of an active premium
\* caller set it: their create of that task, or their PUT to it, with
\* priority high.
C34_HighPriorityInvariant ==
  \A t \in tasks :
    t.priority = "high"
    => \E s \in Slots :
         /\ Started(s) /\ isAuthed(req[s].user) /\ Eligible(s)
         /\ Has(req[s].body, "priority") /\ Get(req[s].body, "priority") = "high"
         /\ \/ req[s].route \in PostRoutes /\ req[s].created = t.id
            \/ req[s].route \in PutRoutes /\ req[s].id = t.id

\* C35: the owner is immutable.  No step changes the ownerId of a stored task,
\* a new task gets a fresh id and its creator as owner, and a write that
\* is applied lands on a task that its caller owns, or on any task for an
\* admin.
C35_OwnerImmutable ==
  [][ /\ \A t \in tasks : \A t2 \in tasks' :
           t2.id = t.id => t2.ownerId = t.ownerId
      /\ nextId' >= nextId
      /\ \A t2 \in tasks' :
           (\A t \in tasks : t.id # t2.id)
           => /\ t2.id >= nextId /\ t2.id < nextId'
              /\ \E s \in Slots :
                   /\ req[s].route \in PostRoutes
                   /\ req'[s].created = t2.id
                   /\ t2.ownerId = req[s].user.userId
      /\ \A s \in Slots :
           ( /\ req[s].route \in WriteRoutes /\ req[s].pc = "persist"
             /\ req'[s].pc = "done" /\ req'[s].status = 200 )
           => \E t \in tasks :
                /\ t.id = req[s].id
                /\ (t.ownerId = req[s].user.userId \/ req[s].user.role = "admin")
    ]_vars

C35_Witness ==
  \E s, t \in Slots :
    /\ Done(s) /\ req[s].route \in PutRoutes /\ req[s].status = 200
    /\ req[s].user.userId = 1
    /\ Done(t) /\ req[t].route \in WriteRoutes /\ req[t].status = 403
    /\ req[t].user.userId = 2 /\ req[t].id = req[s].id
    /\ \E x \in tasks : x.id = req[s].id /\ x.ownerId = 1 /\ x.title = "B"

---------------------------------------------------------------------------
(* The list under filters *)

\* the task satisfies every filter that the query supplies
SatisfiesFilters(query, t) == matches(baseFilter(query), t)

\* C36: list filters combine with visibility.  GET /api/v2/tasks answers
\* with exactly the tasks that satisfy every supplied filter and are visible
\* to the caller, and total is their number.
C36_FiltersAndVisibility ==
  [][ \A s \in Slots :
        ( /\ req[s].pc = "idle" /\ req'[s].pc = "done"
          /\ req'[s].route = "LIST2" /\ req'[s].status = 200 )
        => LET want == {t \in tasks :
                          /\ SatisfiesFilters(req'[s].body, t)
                          /\ VisibleTo(req'[s].cred, t)}
           IN  /\ req'[s].resp.items = want
               /\ req'[s].resp.total = Cardinality(want)
    ]_vars

---------------------------------------------------------------------------
(* Replay after later writes *)

\* C37: replay is a snapshot.  A replay answers with the body that the
\* create under its key and payload was answered with, whatever has happened
\* to the task since, and no step of PUT, PATCH status or DELETE changes the
\* IdempotencyKey table.
C37_ReplaySnapshot ==
  [][ /\ \A s \in Slots :
           (req[s].pc = "idle" /\ req'[s].outcome = "replay")
           => \A t \in Slots :
                ( /\ Done(t) /\ req[t].status = 201
                  /\ req[t].scopedKey = req'[s].scopedKey
                  /\ req[t].requestHash = req'[s].requestHash )
                => req'[s].resp = req[t].resp
      /\ \A s \in Slots :
           (req'[s].route \in WriteRoutes /\ req'[s] # req[s])
           => idem' = idem
    ]_vars

====
